---- MODULE Spec2Model ----
(***************************************************************************)
(* Session log rotation of the ralph-wiggum-pro plugin                     *)
(* (plugins/ralph-wiggum-pro/scripts/rotate-session-log.ts).               *)
(*                                                                         *)
(* The log is a file of lines; rotateSessionLog is modelled step by step,  *)
(* one action per file-system call, so that what another process can see   *)
(* or do between two calls is a state of the model.                        *)
(***************************************************************************)
EXTENDS Integers, Sequences, FiniteSets, TLC

\* ------------------------------------------------------------------------
\* Program constant and bounds of the model
\* ------------------------------------------------------------------------

MAX_SESSION_ENTRIES == 100

\* longest hand-enumerated part of a log that is near the ceiling
MaxLen == 4
\* longest hand-enumerated part of a log that is a large backlog
MaxBacklogLen == 1
\* longest hand-enumerated part of a log when faults or appends interleave
MaxFaultLen == 3
\* lines another process appends while a rotation runs
MaxAppends == 1
\* largest ceiling of the specification in which the ceiling is configurable
MaxCeiling == 2
\* longest log of the specification in which the ceiling is configurable
MaxCeilLen == 4
\* enumerated lines of a log rotateSessionLog is invoked on more than once
MaxAgainLen == 3
\* enumerated lines of a log one line over the ceiling
MaxOverLen == 4
\* lines of a log the dashboard reconciles
MaxMergeLen == 3
\* sessions in a log whose records the dashboard sorts
MaxSortSessions == 3

\* ------------------------------------------------------------------------
\* Lines of the log
\* ------------------------------------------------------------------------

\* a falsy loop_id / session_id (absent, empty): `a || b` falls through it
NoId == 0

\* one line of the file, by what JSON.parse makes of it:
\*   "blank"      empty or white space only (dropped by the filter on trim)
\*   "malformed"  JSON.parse throws
\*   "null"       JSON.parse returns null (valid JSON, not an object)
\*   "obj"        JSON.parse returns an object with the fields below
Obj(loop, sess, st, t) ==
  [kind |-> "obj", loop_id |-> loop, session_id |-> sess, status |-> st, started_at |-> t]

StartLine(loop, sess, t) == Obj(loop, sess, "active", t)

CompletionLine(loop, sess) == Obj(loop, sess, "completed", 0)

MalformedLine == [kind |-> "malformed", loop_id |-> NoId, session_id |-> NoId, status |-> "", started_at |-> 0]

BlankLine == [kind |-> "blank", loop_id |-> NoId, session_id |-> NoId, status |-> "", started_at |-> 0]

NullLine == [kind |-> "null", loop_id |-> NoId, session_id |-> NoId, status |-> "", started_at |-> 0]

\* a file: absent, or present with its lines
NoFile == [exists |-> FALSE, data |-> <<>>]

File(d) == [exists |-> TRUE, data |-> d]

\* ------------------------------------------------------------------------
\* Sequence helpers
\* ------------------------------------------------------------------------

Range(s) == {s[i] : i \in DOMAIN s}

\* the same sequence, as an explicit tuple (the model checker then computes
\* every element once)
Tuple(s) == SelectSeq(s, LAMBDA x : TRUE)

RECURSIVE SumTo(_, _, _)
\* f[lo] + ... + f[hi]
SumTo(f, lo, hi) ==
  IF lo > hi THEN 0
  ELSE IF lo = hi THEN f[lo]
  ELSE SumTo(f, lo, (lo + hi) \div 2) + SumTo(f, (lo + hi) \div 2 + 1, hi)

\* the least element of a set of numbers, d for the empty set
MinOr(S, d) == IF S = {} THEN d ELSE CHOOSE i \in S : \A j \in S : i <= j

\* ------------------------------------------------------------------------
\* rotateSessionLog: the pure part
\* ------------------------------------------------------------------------

\* content.split('\n').filter((line) => line.trim())
NonBlankLines(data) == SelectSeq(data, LAMBDA l : l.kind # "blank")

\* JSON.parse(line) throws
ParseThrows(line) == line.kind = "malformed"

\* the entries array: every line that JSON.parse accepts
ParsedEntries(lines) == SelectSeq(lines, LAMBDA l : ~ParseThrows(l))

\* entry.loop_id || entry.loop_id || entry.session_id
LoopIdOf(entry) == IF entry.loop_id # NoId THEN entry.loop_id ELSE entry.session_id

\* reading a property of null throws a TypeError
PropertyAccessThrows(entries) == \E i \in DOMAIN entries : entries[i].kind = "null"

\* the identity of every entry, in order
LoopIds(entries) == Tuple([i \in DOMAIN entries |-> LoopIdOf(entries[i])])

\* the identities whose group got a start (st = "active": existing.start = entry)
\* or a completion (st = "completed": existing.completion = entry)
IdsWithStatus(entries, st) ==
  {LoopIdOf(entries[i]) : i \in {j \in DOMAIN entries : entries[j].status = st}}

\* .filter(([, data]) => data.start && data.completion)
IsComplete(starts, completions, id) == id \in starts /\ id \in completions

\* the identity of every entry, marked when it is a key of byLoopId that passes
\* the filter: the Map holds a key where it was first set
MarkKeys(ids, starts, completions) ==
  Tuple([i \in DOMAIN ids |->
           [id |-> ids[i],
            key |-> /\ IsComplete(starts, completions, ids[i])
                    /\ \A j \in 1..(i - 1) : ids[j] # ids[i]]])

IdsOf(marked) == Tuple([k \in DOMAIN marked |-> marked[k].id])

\* the keys of the complete groups, in the insertion order of the Map
CompleteKeys(entries, ids) ==
  IdsOf(SelectSeq(MarkKeys(ids, IdsWithStatus(entries, "active"),
                           IdsWithStatus(entries, "completed")),
                  LAMBDA m : m.key))

\* the last element of a non-empty set of indexes
LastIdx(S) == CHOOSE i \in S : \A j \in S : j <= i

\* existing.start = entry: the last start of the identity wins
StartOf(entries, ids, id) ==
  entries[LastIdx({i \in DOMAIN entries : ids[i] = id /\ entries[i].status = "active"})]

\* the position of every element in the sorted array: after the earlier ones
\* and after the equal ones that precede it (Array.prototype.sort is stable)
SortRanks(s) ==
  Tuple([i \in DOMAIN s |->
           Cardinality({j \in DOMAIN s :
                          \/ s[j].startedAt < s[i].startedAt
                          \/ s[j].startedAt = s[i].startedAt /\ j < i}) + 1])

Arrange(s, rank) == Tuple([k \in DOMAIN s |-> s[CHOOSE i \in DOMAIN s : rank[i] = k]])

\* the complete sessions left in the order the Map iterates them
KeepMapOrder(s) == s

\* .sort((a, b) => a.startedAt.localeCompare(b.startedAt))
SortByStartedAt(s) == Arrange(s, SortRanks(s))

\* .map(([loopId, data]) => ({ loopId, startedAt: data.start!.started_at }))
MapSessions(entries, ids, keys) ==
  Tuple([i \in DOMAIN keys |->
           [loopId |-> keys[i], startedAt |-> StartOf(entries, ids, keys[i]).started_at]])

\* completeSessions: complete identities, oldest start first
CompleteSessions(entries, ids) ==
  SortByStartedAt(MapSessions(entries, ids, CompleteKeys(entries, ids)))

\* Math.floor(entryCount / 2)
MaxRemove(entryCount) == entryCount \div 2

\* entriesToRemove after the 50% clamp
EntriesToRemove(entryCount, ceiling) ==
  IF entryCount - ceiling > MaxRemove(entryCount) THEN MaxRemove(entryCount)
  ELSE entryCount - ceiling

\* loopEntries.length for one identity
LoopEntriesLength(ids, id) == Cardinality({i \in DOMAIN ids : ids[i] = id})

\* a rotation that lacks the check of loopEntries.length
IsAnomalyUnchecked(ids, id) == FALSE

\* SAFETY: a complete session should have exactly 2 entries
IsAnomaly(ids, id) == LoopEntriesLength(ids, id) # 2

\* a loop that counts one line for every session it adds
AddedCountsByOne(ids, kept) == Tuple([i \in DOMAIN kept |-> 1])

\* loopEntries.length of every session the loop does not skip
AddedCounts(ids, kept) ==
  Tuple([i \in DOMAIN kept |-> LoopEntriesLength(ids, kept[i].loopId)])

\* a loop without the break: it ends at the last session
BreakAtLast(added, toRemove) == Len(added)

\* the session at which the loop ends: the first that makes
\* purgeCount >= entriesToRemove, the last one when none does
BreakAt(added, toRemove) ==
  MinOr({i \in DOMAIN added : SumTo(added, 1, i) >= toRemove}, Len(added))

PurgeResult(kept, added, last) ==
  [purgeIds |-> {kept[i].loopId : i \in 1..last},
   purgeCount |-> SumTo(added, 1, last)]

PurgeOf(kept, added, toRemove) == PurgeResult(kept, added, BreakAt(added, toRemove))

PurgeKept(ids, kept, toRemove) == PurgeOf(kept, AddedCounts(ids, kept), toRemove)

\* the for loop over completeSessions: an anomaly is skipped, any other session
\* is added with its loopEntries.length, and the loop breaks as soon as
\* purgeCount >= entriesToRemove; returns purgeIds and purgeCount
PurgeLoop(sessions, ids, toRemove) ==
  PurgeKept(ids, SelectSeq(sessions, LAMBDA x : ~IsAnomaly(ids, x.loopId)), toRemove)

\* a filter loop whose catch block drops the line instead of keeping it
KeepLineParsedOnly(line, ids) ==
  /\ ~ParseThrows(line)
  /\ line.kind # "null"
  /\ LoopIdOf(line) \notin ids

\* the filter loop keeps a line whose parse or identity lookup throws (the
\* catch around both), and a parsed line whose identity is not in the purge set
KeepLine(line, ids) ==
  \/ ParseThrows(line)
  \/ line.kind = "null"
  \/ LoopIdOf(line) \notin ids

\* a filter loop that builds the list with unshift: the kept lines in
\* reverse order
FilterLinesReversed(lines, ids) ==
  LET kept == SelectSeq(lines, LAMBDA l : KeepLine(l, ids))
  IN Tuple([i \in DOMAIN kept |-> kept[Len(kept) + 1 - i]])

\* lines 229-244: the lines that are kept, as they were read and in their order
FilterLines(lines, ids) == SelectSeq(lines, LAMBDA l : KeepLine(l, ids))

\* SAFETY VALIDATION: filteredLines.length !== expectedCount
CountMismatch(filtered, entryCount, cnt) == Len(filtered) # entryCount - cnt

\* a rotation that lacks the check for an empty result
WouldDeleteAllUnchecked(filtered) == FALSE

\* SAFETY: filteredLines.length === 0
WouldDeleteAll(filtered) == Len(filtered) = 0

\* ------------------------------------------------------------------------
\* State
\* ------------------------------------------------------------------------

VARIABLES
  maxEntries,     \* the ceiling the rotation runs with
  logFile,        \* LOG_FILE (sessions.jsonl)
  backupFile,     \* LOG_FILE + '.rotation-backup'
  tempFile,       \* LOG_FILE + '.tmp.' + Date.now()
  transcripts,    \* identities that have transcript files
  pc,             \* the statement rotateSessionLog is about to execute
  content,        \* const content = readFileSync(LOG_FILE)
  purgeIds,       \* const purgeIds
  purgeCount,     \* let purgeCount
  filteredLines,  \* const filteredLines
  restoreData,    \* what the restore in progress writes back
  inCatch,        \* control is inside the outer catch block
  error,          \* the error the result will carry
  result,         \* the RotationResult returned
  logWrites,      \* history: writes rotateSessionLog has made to LOG_FILE
  backupSaved,    \* history: what the backup write stored
  appended,       \* history: lines other processes appended during the run
  restoreFailed,  \* history: the restore inside the catch block threw
  stoppedAt,      \* history: where the process was killed, if it was
  markers,        \* the marker files (state_file_path) that exist
  sessionList,    \* what the last getSessions() returned to the dashboard
  response,       \* what the last cancel or delete request was answered
  otherRun        \* a second rotation of the same log, while it is not the one taking a step

vars == <<maxEntries, logFile, backupFile, tempFile, transcripts, pc, content,
          purgeIds, purgeCount, filteredLines, restoreData, inCatch, error,
          result, logWrites, backupSaved, appended, restoreFailed, stoppedAt,
          markers, sessionList, response, otherRun>>

files == <<logFile, backupFile, tempFile, transcripts>>

locals == <<content, purgeIds, purgeCount, filteredLines, restoreData>>

history == <<logWrites, backupSaved, appended, restoreFailed, stoppedAt>>

\* the dashboard's side: the marker files, the sessions it was given and the
\* answer to its last request
reader == <<markers, sessionList, response>>

\* const lines; const entryCount = lines.length
lines == NonBlankLines(content)

entryCount == Len(lines)

NoResult ==
  [success |-> FALSE, entriesBefore |-> 0, entriesAfter |-> 0, sessionsPurged |-> 0, error |-> "none"]

\* a result that counts the purged lines where it should count the sessions
SuccessCountingLines(before, after, purged) ==
  [success |-> TRUE, entriesBefore |-> before, entriesAfter |-> after,
   sessionsPurged |-> before - after, error |-> ""]

\* { success: true, entriesBefore, entriesAfter, sessionsPurged }
Success(before, after, purged) ==
  [success |-> TRUE, entriesBefore |-> before, entriesAfter |-> after,
   sessionsPurged |-> purged, error |-> ""]

\* { success: false, entriesBefore: n, entriesAfter: n, sessionsPurged: 0, error }
Failure(n, err) ==
  [success |-> FALSE, entriesBefore |-> n, entriesAfter |-> n, sessionsPurged |-> 0, error |-> err]

\* a guard that lets a log of exactly the ceiling through to the rotation
OverLimitAtCeiling(n, ceiling) == n >= ceiling

\* line 106, negated: entryCount <= MAX_SESSION_ENTRIES returns at once
OverLimit(n, ceiling) == n > ceiling

\* ------------------------------------------------------------------------
\* rotateSessionLog: the steps
\* ------------------------------------------------------------------------

\* return result
Return(r) ==
  /\ pc' = "done"
  /\ result' = r

\* lines 91-113: the two guards, and the read between them
Begin ==
  /\ pc = "start"
  /\ IF ~logFile.exists
       THEN /\ Return(Success(0, 0, 0))
            /\ UNCHANGED content
       ELSE /\ content' = logFile.data
            /\ LET n == Len(NonBlankLines(logFile.data))
               IN IF ~OverLimit(n, maxEntries)
                    THEN Return(Success(n, n, 0))
                    ELSE /\ pc' = "backup"
                         /\ UNCHANGED result
  /\ UNCHANGED <<maxEntries, otherRun, reader, files, purgeIds, purgeCount, filteredLines, restoreData,
                 inCatch, error, history>>

\* a rotation that goes on to the purge without writing the backup
WriteBackupSkipped ==
  /\ pc = "backup"
  /\ pc' = "compute"
  /\ UNCHANGED <<maxEntries, otherRun, reader, files, locals, inCatch, error, result, history>>

\* lines 115-118: writeFileSync(backupFile, content)
WriteBackup ==
  /\ pc = "backup"
  /\ backupFile' = File(content)
  /\ backupSaved' = File(content)
  /\ pc' = "compute"
  /\ UNCHANGED <<maxEntries, otherRun, reader, logFile, tempFile, transcripts, locals, inCatch, error,
                 result, logWrites, appended, restoreFailed, stoppedAt>>

\* the error of the three validations of the filtered lines, "" when they pass
Validate(filtered, n, cnt) ==
  IF CountMismatch(filtered, n, cnt) THEN "Count mismatch"
  ELSE IF WouldDeleteAll(filtered) THEN "Rotation would delete all entries"
  ELSE IF \E i \in DOMAIN filtered : ParseThrows(filtered[i])
    THEN "Invalid JSON in filtered output"
  ELSE ""

\* lines 129-290: parse, group, select, filter and validate, all in memory
Compute ==
  /\ pc = "compute"
  /\ \E entries \in {ParsedEntries(lines)} :
       IF PropertyAccessThrows(entries)
         THEN /\ pc' = "catch"
              /\ error' = "TypeError"
              /\ UNCHANGED <<purgeIds, purgeCount, filteredLines, restoreData>>
         ELSE \E sessions \in {CompleteSessions(entries, LoopIds(entries))} :
           IF Len(sessions) = 0
             THEN /\ pc' = "unlinkNoop"
                  /\ UNCHANGED <<purgeIds, purgeCount, filteredLines, restoreData, error>>
             ELSE \E p \in {PurgeLoop(sessions, LoopIds(entries),
                                     EntriesToRemove(entryCount, maxEntries))} :
               /\ purgeIds' = p.purgeIds
               /\ purgeCount' = p.purgeCount
               /\ IF p.purgeIds = {}
                    THEN /\ pc' = "unlinkNoop"
                         /\ UNCHANGED <<filteredLines, restoreData, error>>
                    ELSE \E filtered \in {FilterLines(lines, p.purgeIds)} :
                           \E failed \in {Validate(filtered, entryCount, p.purgeCount)} :
                             /\ filteredLines' = filtered
                             /\ IF failed # ""
                                  THEN /\ pc' = "restoreTrunc"
                                       /\ restoreData' = content
                                       /\ error' = failed
                                  ELSE /\ pc' = "writeTemp"
                                       /\ UNCHANGED <<restoreData, error>>
  /\ UNCHANGED <<maxEntries, otherRun, reader, files, content, inCatch, result, history>>

\* lines 173-179 and 219-225: unlinkSync(backupFile); return the no-op result
UnlinkNoop ==
  /\ pc = "unlinkNoop"
  /\ backupFile' = NoFile
  /\ Return(Success(entryCount, entryCount, 0))
  /\ UNCHANGED <<maxEntries, otherRun, reader, logFile, tempFile, transcripts, locals, inCatch, error, history>>

\* a restore that removes the backup before it rewrites the log
RestoreTruncateBackupGone ==
  /\ pc = "restoreTrunc"
  /\ logFile' = File(<<>>)
  /\ backupFile' = NoFile
  /\ logWrites' = logWrites + 1
  /\ pc' = "restoreWrite"
  /\ UNCHANGED <<maxEntries, otherRun, reader, tempFile, transcripts, locals, inCatch, error,
                 result, backupSaved, appended, restoreFailed, stoppedAt>>

\* writeFileSync(LOG_FILE, ...) opens the file with O_TRUNC: the file is empty
\* until the data is written
RestoreTruncate ==
  /\ pc = "restoreTrunc"
  /\ logFile' = File(<<>>)
  /\ logWrites' = logWrites + 1
  /\ pc' = "restoreWrite"
  /\ UNCHANGED <<maxEntries, otherRun, reader, backupFile, tempFile, transcripts, locals, inCatch, error,
                 result, backupSaved, appended, restoreFailed, stoppedAt>>

\* a restore that writes the split lines back instead of the content read
RestoreWriteLines ==
  /\ pc = "restoreWrite"
  /\ logFile' = File(NonBlankLines(restoreData))
  /\ pc' = "restoreUnlink"
  /\ UNCHANGED <<maxEntries, otherRun, reader, backupFile, tempFile, transcripts, locals, inCatch, error,
                 result, history>>

\* writeFileSync(LOG_FILE, content) / writeFileSync(LOG_FILE, backup): the data
RestoreWrite ==
  /\ pc = "restoreWrite"
  /\ logFile' = File(restoreData)
  /\ pc' = "restoreUnlink"
  /\ UNCHANGED <<maxEntries, otherRun, reader, backupFile, tempFile, transcripts, locals, inCatch, error,
                 result, history>>

\* unlinkSync(backupFile); return the failure
RestoreUnlink ==
  /\ pc = "restoreUnlink"
  /\ backupFile' = NoFile
  /\ Return(Failure(entryCount, error))
  /\ UNCHANGED <<maxEntries, otherRun, reader, logFile, tempFile, transcripts, locals, inCatch, error, history>>

\* a commit that writes the filtered lines over the log file itself
WriteTempInPlace ==
  /\ pc = "writeTemp"
  /\ logFile' = File(filteredLines)
  /\ tempFile' = File(filteredLines)
  /\ logWrites' = logWrites + 1
  /\ pc' = "rename"
  /\ UNCHANGED <<maxEntries, otherRun, reader, backupFile, transcripts, locals, inCatch, error, result,
                 backupSaved, appended, restoreFailed, stoppedAt>>

\* lines 293-294: writeFileSync(tempFile, filteredLines.join('\n') + '\n')
WriteTemp ==
  /\ pc = "writeTemp"
  /\ tempFile' = File(filteredLines)
  /\ pc' = "rename"
  /\ UNCHANGED <<maxEntries, otherRun, reader, logFile, backupFile, transcripts, locals, inCatch, error,
                 result, history>>

\* a commit whose rename leaves the log file as it was
RenameLost ==
  /\ pc = "rename"
  /\ tempFile' = NoFile
  /\ logWrites' = logWrites + 1
  /\ pc' = "unlinkBackup"
  /\ UNCHANGED <<maxEntries, otherRun, reader, logFile, backupFile, transcripts, locals, inCatch, error,
                 result, backupSaved, appended, restoreFailed, stoppedAt>>

\* line 295: renameSync(tempFile, LOG_FILE)
Rename ==
  /\ pc = "rename"
  /\ logFile' = tempFile
  /\ tempFile' = NoFile
  /\ logWrites' = logWrites + 1
  /\ pc' = "unlinkBackup"
  /\ UNCHANGED <<maxEntries, otherRun, reader, backupFile, transcripts, locals, inCatch, error, result,
                 backupSaved, appended, restoreFailed, stoppedAt>>

\* line 298: unlinkSync(backupFile)
UnlinkBackup ==
  /\ pc = "unlinkBackup"
  /\ backupFile' = NoFile
  /\ pc' = "transcripts"
  /\ UNCHANGED <<maxEntries, otherRun, reader, logFile, tempFile, transcripts, locals, inCatch, error,
                 result, history>>

\* a cleanup that deletes the transcripts of every identity
DeleteAllTranscripts ==
  /\ pc = "transcripts"
  /\ transcripts' = {}
  /\ Return(Success(entryCount, Len(filteredLines), Cardinality(purgeIds)))
  /\ UNCHANGED <<maxEntries, otherRun, reader, logFile, backupFile, tempFile, locals, inCatch, error, history>>

\* lines 300-310: deleteTranscriptFiles for every purged identity; return
DeleteTranscripts ==
  /\ pc = "transcripts"
  /\ transcripts' = transcripts \ purgeIds
  /\ Return(Success(entryCount, Len(filteredLines), Cardinality(purgeIds)))
  /\ UNCHANGED <<maxEntries, otherRun, reader, logFile, backupFile, tempFile, locals, inCatch, error, history>>

\* lines 311-314: catch (err) { backup = readFileSync(backupFile) ...
CatchRead ==
  /\ pc = "catch"
  /\ inCatch' = TRUE
  /\ IF backupFile.exists
       THEN /\ restoreData' = backupFile.data
            /\ pc' = "restoreTrunc"
            /\ UNCHANGED <<result, restoreFailed>>
       ELSE /\ restoreFailed' = TRUE
            /\ Return(Failure(entryCount, error))
            /\ UNCHANGED restoreData
  /\ UNCHANGED <<maxEntries, otherRun, reader, files, content, purgeIds, purgeCount, filteredLines, error,
                 logWrites, backupSaved, appended, stoppedAt>>

\* ------------------------------------------------------------------------
\* The environment: failing file-system calls, a kill, another writer
\* ------------------------------------------------------------------------

\* the statements that are a file-system call
IoSteps == {"backup", "unlinkNoop", "restoreTrunc", "restoreWrite", "restoreUnlink",
            "writeTemp", "rename", "unlinkBackup", "transcripts", "catch"}

\* a catch block that removes the backup also when its restore threw
IOFaultBackupRemoved ==
  /\ pc \in IoSteps
  /\ IF pc = "backup"
       THEN /\ Return(Failure(entryCount, "Failed to create backup"))
            /\ UNCHANGED <<error, restoreFailed, backupFile, transcripts>>
       ELSE IF pc = "transcripts"
       THEN /\ \E kept \in SUBSET (transcripts \cap purgeIds) :
                 /\ kept # {}
                 /\ transcripts' = (transcripts \ purgeIds) \cup kept
            /\ Return(Success(entryCount, Len(filteredLines), Cardinality(purgeIds)))
            /\ UNCHANGED <<error, restoreFailed, backupFile>>
       ELSE IF inCatch \/ pc = "catch"
       THEN /\ restoreFailed' = TRUE
            /\ backupFile' = NoFile
            /\ Return(Failure(entryCount, error))
            /\ UNCHANGED <<error, transcripts>>
       ELSE /\ pc' = "catch"
            /\ error' = "EIO"
            /\ UNCHANGED <<result, restoreFailed, backupFile, transcripts>>
  /\ UNCHANGED <<maxEntries, otherRun, reader, logFile, tempFile, locals, inCatch, logWrites,
                 backupSaved, appended, stoppedAt>>

\* the file-system call at pc throws instead of taking effect:
\*   lines 119-127  a failed backup write returns 'Failed to create backup'
\*   lines 82-84    a failed transcript deletion is ignored: the files of some
\*                  purged identities stay, the loop goes on to the others
\*   lines 317-319  a throw inside the catch block leaves the backup in place
\*   line 311       any other throw enters the catch block
IOFault ==
  /\ pc \in IoSteps
  /\ IF pc = "backup"
       THEN /\ Return(Failure(entryCount, "Failed to create backup"))
            /\ UNCHANGED <<error, restoreFailed, transcripts>>
       ELSE IF pc = "transcripts"
       THEN /\ \E kept \in SUBSET (transcripts \cap purgeIds) :
                 /\ kept # {}
                 /\ transcripts' = (transcripts \ purgeIds) \cup kept
            /\ Return(Success(entryCount, Len(filteredLines), Cardinality(purgeIds)))
            /\ UNCHANGED <<error, restoreFailed>>
       ELSE IF inCatch \/ pc = "catch"
       THEN /\ restoreFailed' = TRUE
            /\ Return(Failure(entryCount, error))
            /\ UNCHANGED <<error, transcripts>>
       ELSE /\ pc' = "catch"
            /\ error' = "EIO"
            /\ UNCHANGED <<result, restoreFailed, transcripts>>
  /\ UNCHANGED <<maxEntries, otherRun, reader, logFile, backupFile, tempFile, locals, inCatch, logWrites,
                 backupSaved, appended, stoppedAt>>

\* the process is killed between two statements
Crash ==
  /\ pc \notin {"start", "done", "crashed"}
  /\ stoppedAt' = pc
  /\ pc' = "crashed"
  /\ UNCHANGED <<maxEntries, otherRun, reader, files, locals, inCatch, error, result, logWrites,
                 backupSaved, appended, restoreFailed>>

\* log-session.sh, called by the hook of another session, appends one line
\* while the rotation runs
AppendLine(l) ==
  /\ pc \notin {"start", "done", "crashed"}
  /\ Len(appended) < MaxAppends
  /\ logFile' = File(Append(logFile.data, l))
  /\ appended' = Append(appended, l)
  /\ UNCHANGED <<maxEntries, otherRun, reader, backupFile, tempFile, transcripts, pc, locals, inCatch,
                 error, result, logWrites, backupSaved, restoreFailed, stoppedAt>>

\* the scheduler lets the other rotation run: the two exchange the locals,
\* and the temp file unless both use the same name
Switch ==
  /\ otherRun.pc # "done"
  /\ otherRun' = [otherRun EXCEPT !.pc = pc, !.content = content, !.purgeIds = purgeIds,
                            !.purgeCount = purgeCount, !.filteredLines = filteredLines,
                            !.restoreData = restoreData, !.inCatch = inCatch,
                            !.error = error, !.result = result,
                            !.tempFile = IF otherRun.sameTemp THEN NoFile ELSE tempFile]
  /\ pc' = otherRun.pc
  /\ content' = otherRun.content
  /\ purgeIds' = otherRun.purgeIds
  /\ purgeCount' = otherRun.purgeCount
  /\ filteredLines' = otherRun.filteredLines
  /\ restoreData' = otherRun.restoreData
  /\ inCatch' = otherRun.inCatch
  /\ error' = otherRun.error
  /\ result' = otherRun.result
  /\ tempFile' = IF otherRun.sameTemp THEN tempFile ELSE otherRun.tempFile
  /\ UNCHANGED <<maxEntries, reader, logFile, backupFile, transcripts, history>>

\* lines 250, 263, 280 and 315: writeFileSync(LOG_FILE, ...) is not atomic;
\* while it writes, the file holds the beginning of the data, which a process
\* that reads the log then gets
RestoreWritePartly ==
  /\ pc = "restoreWrite"
  /\ logFile.data = <<>>
  /\ \E k \in 1..(Len(restoreData) - 1) : logFile' = File(SubSeq(restoreData, 1, k))
  /\ UNCHANGED <<maxEntries, otherRun, reader, backupFile, tempFile, transcripts, pc, locals,
                 inCatch, error, result, history>>

\* the file of the call at pc is there: the backup for unlinkSync, the temp
\* file for renameSync
FileThere ==
  /\ pc \in {"unlinkNoop", "restoreUnlink", "unlinkBackup"} => backupFile.exists
  /\ pc = "rename" => tempFile.exists

\* unlinkSync or renameSync throws ENOENT, the other rotation having removed
\* the file: the throw takes the way of every other failing call
FileGone ==
  /\ ~FileThere
  /\ IOFault

\* lines 330-331: the script is run again; the files are as the last run left
\* them, the locals are fresh and the history is that of the new run
Reinvoke ==
  /\ pc = "done"
  /\ pc' = "start"
  /\ content' = <<>>
  /\ purgeIds' = {}
  /\ purgeCount' = 0
  /\ filteredLines' = <<>>
  /\ restoreData' = <<>>
  /\ inCatch' = FALSE
  /\ error' = ""
  /\ logWrites' = 0
  /\ backupSaved' = NoFile
  /\ appended' = <<>>
  /\ restoreFailed' = FALSE
  /\ stoppedAt' = ""
  /\ UNCHANGED <<maxEntries, otherRun, reader, files, result>>

\* ------------------------------------------------------------------------
\* The dashboard's reconciler: parseLogFile, mergeSessions, getSessions
\* ------------------------------------------------------------------------

\* null, for a field that holds a number and for one that holds a string
Null == -1

NullStr == "null"

\* what reading a property gives when the object has no such property
Undefined == -2

UndefinedStr == "undefined"

\* a start event without a marker path
NoPath == ""

\* the project directory the loops of the logs run in
Project == "/p"

\* a start event as the logger writes it (project_name and max_iterations,
\* which mergeSessions copies as they are, left out)
StartEntry(loop, sess, t, path, text, promise) ==
  [kind |-> "obj", loop_id |-> loop, session_id |-> sess, status |-> "active",
   project |-> Project, started_at |-> t, state_file_path |-> path, task |-> text,
   completion_promise |-> promise, outcome |-> UndefinedStr, ended_at |-> Undefined,
   duration_seconds |-> Undefined, iterations |-> Undefined, error_reason |-> UndefinedStr]

\* a completion event as the logger writes it
CompletionEntry(loop, sess, out, ended, dur, iters, reason) ==
  [kind |-> "obj", loop_id |-> loop, session_id |-> sess, status |-> "completed",
   project |-> UndefinedStr, started_at |-> Undefined, state_file_path |-> UndefinedStr, task |-> UndefinedStr,
   completion_promise |-> UndefinedStr, outcome |-> out, ended_at |-> ended,
   duration_seconds |-> dur, iterations |-> iters, error_reason |-> reason]

\* the group has no such entry
NoEntry == [kind |-> "none"]

\* part_007 lines 73-93: parseLogFile
ParseLogFile(f) == IF ~f.exists THEN <<>> ELSE ParsedEntries(NonBlankLines(f.data))

\* part_007 lines 103 and 111: the key of the Map is entry.session_id
GroupKey(entry) == entry.session_id

\* the keys of sessionMap in the order a Map iterates them: first insertion
SessionKeys(entries) ==
  LET idx == [i \in DOMAIN entries |-> i]
      first == SelectSeq(idx, LAMBDA i : \A j \in 1..(i - 1) :
                                           GroupKey(entries[j]) # GroupKey(entries[i]))
  IN Tuple([k \in DOMAIN first |-> GroupKey(entries[first[k]])])

\* lines 105-109: existing.start / existing.completion is the last entry of
\* the group with that status
LastOf(entries, key, st) ==
  LET S == {i \in DOMAIN entries : GroupKey(entries[i]) = key /\ entries[i].status = st}
  IN IF S = {} THEN NoEntry ELSE entries[LastIdx(S)]

\* a ?? b, for a number and for a string
Coalesce(a, b) == IF a \in {Null, Undefined} THEN b ELSE a

CoalesceStr(a, b) == IF a \in {NullStr, UndefinedStr} THEN b ELSE a

\* a task text that carries a --completion-promise flag, and the value of the
\* flag in a task text
FlaggedTask == "Task --completion-promise=EXTRACTED"

FlagOf(text) == IF text = FlaggedTask THEN "EXTRACTED" ELSE NullStr

\* a Session whose completion_promise is the flag of the task text when
\* there is one
SessionOfFlagFirst(key, start, completion, now) ==
  LET isActive == completion = NoEntry
  IN [session_id |-> key,
      status |-> IF isActive THEN "active" ELSE completion.outcome,
      outcome |-> IF isActive THEN UndefinedStr ELSE completion.outcome,
      project |-> start.project,
      state_file_path |-> start.state_file_path,
      task |-> start.task,
      started_at |-> start.started_at,
      ended_at |-> IF isActive THEN Null ELSE Coalesce(completion.ended_at, Null),
      duration_seconds |-> IF isActive THEN now - start.started_at
                           ELSE Coalesce(completion.duration_seconds, 0),
      iterations |-> IF isActive THEN Null ELSE Coalesce(completion.iterations, Null),
      completion_promise |-> CoalesceStr(FlagOf(start.task), start.completion_promise),
      error_reason |-> IF isActive THEN NullStr
                       ELSE CoalesceStr(completion.error_reason, NullStr)]

\* lines 123-157: the Session of a group that has a start
SessionOf(key, start, completion, now) ==
  LET isActive == completion = NoEntry
  IN [session_id |-> key,
      status |-> IF isActive THEN "active" ELSE completion.outcome,
      outcome |-> IF isActive THEN UndefinedStr ELSE completion.outcome,
      project |-> start.project,
      state_file_path |-> start.state_file_path,
      task |-> start.task,
      started_at |-> start.started_at,
      ended_at |-> IF isActive THEN Null ELSE Coalesce(completion.ended_at, Null),
      duration_seconds |-> IF isActive THEN now - start.started_at
                           ELSE Coalesce(completion.duration_seconds, 0),
      iterations |-> IF isActive THEN Null ELSE Coalesce(completion.iterations, Null),
      completion_promise |-> start.completion_promise,
      error_reason |-> IF isActive THEN NullStr
                       ELSE CoalesceStr(completion.error_reason, NullStr)]

\* lines 117-158: one Session for every group that has a start, in Map order
MergedGroups(entries, now) ==
  LET keys == SelectSeq(SessionKeys(entries),
                        LAMBDA k : LastOf(entries, k, "active") # NoEntry)
  IN Tuple([i \in DOMAIN keys |->
              SessionOf(keys[i], LastOf(entries, keys[i], "active"),
                        LastOf(entries, keys[i], "completed"), now)])

\* a comparator that orders by started_at ascending
SortsBeforeAscending(a, b) ==
  IF a.status = "active" /\ b.status # "active" THEN TRUE
  ELSE IF a.status # "active" /\ b.status = "active" THEN FALSE
  ELSE a.started_at - b.started_at < 0

\* lines 161-165: the comparator puts a before b
SortsBefore(a, b) ==
  IF a.status = "active" /\ b.status # "active" THEN TRUE
  ELSE IF a.status # "active" /\ b.status = "active" THEN FALSE
  ELSE b.started_at - a.started_at < 0

\* lines 160-165: sessions.sort(...), which is stable
SortSessions(s) ==
  Arrange(s, Tuple([i \in DOMAIN s |->
                      Cardinality({j \in DOMAIN s :
                                     \/ SortsBefore(s[j], s[i])
                                     \/ /\ ~SortsBefore(s[i], s[j])
                                        /\ j < i}) + 1]))

\* part_007 lines 95-168: mergeSessions
MergeSessions(entries, now) == SortSessions(MergedGroups(entries, now))

\* the clock values a call can see
Nows == {10}

\* part_007 lines 175-178: getSessionById, the first record of the session or
\* null
NoSession == [status |-> "null"]

GetSessionById(f, sessionId, now) ==
  LET hits == SelectSeq(MergeSessions(ParseLogFile(f), now),
                        LAMBDA r : r.session_id = sessionId)
  IN IF hits = <<>> THEN NoSession ELSE hits[1]

\* the session ids a caller asks for: those of the logs, and an unknown one
AskedIds == {5, 6, 99}

\* the dashboard looks one session up; the list it holds is that record
LookUp ==
  /\ ~sessionList.done
  /\ \E now \in Nows : \E id \in AskedIds : \E found \in {GetSessionById(logFile, id, now)} :
       sessionList' = [done |-> TRUE,
                       list |-> IF found = NoSession THEN <<>> ELSE <<found>>]
  /\ UNCHANGED <<maxEntries, otherRun, markers, response, files, pc, locals, inCatch, error, result, history>>

\* a reader that rewrites the log without the lines it could not parse
GetSessionsRepairing ==
  /\ ~sessionList.done
  /\ \E now \in Nows :
       sessionList' = [done |-> TRUE, list |-> MergeSessions(ParseLogFile(logFile), now)]
  /\ logFile' = IF logFile.exists THEN File(ParseLogFile(logFile)) ELSE logFile
  /\ UNCHANGED <<maxEntries, otherRun, markers, response, backupFile, tempFile, transcripts, pc, locals, inCatch,
                 error, result, history>>

\* part_007 lines 170-173: getSessions(), called once by the dashboard
GetSessions ==
  /\ ~sessionList.done
  /\ \E now \in Nows :
       sessionList' = [done |-> TRUE, list |-> MergeSessions(ParseLogFile(logFile), now)]
  /\ UNCHANGED <<maxEntries, otherRun, markers, response, files, pc, locals, inCatch, error, result, history>>

\* ------------------------------------------------------------------------
\* The dashboard's cancel: validateStateFilePath, cancelLoop,
\* handleCancelSession
\* ------------------------------------------------------------------------

\* a path string as its segments, and whether it starts at the root
Rooted(segs) == [abs |-> TRUE, segs |-> segs]

Relative(segs) == [abs |-> FALSE, segs |-> segs]

\* the path strings of the logs, read segment by segment
PathOf(text) ==
  CASE text = "/p" -> Rooted(<<"p">>)
    [] text = ".claude" -> Relative(<<".claude">>)
    [] text = "/p/.claude/m1" -> Rooted(<<"p", ".claude", "m1">>)
    [] text = "/p/.claude/../.claude/m1" -> Rooted(<<"p", ".claude", "..", ".claude", "m1">>)
    [] text = "/p/.claude/../../etc/m" -> Rooted(<<"p", ".claude", "..", "..", "etc", "m">>)
    [] text = "/p/.claude-old/m" -> Rooted(<<"p", ".claude-old", "m">>)
    [] text = "/q/.claude/m" -> Rooted(<<"q", ".claude", "m">>)
    [] text = ".claude/m" -> Relative(<<".claude", "m">>)
    [] text = "/home/.claude/ralph-wiggum-pro/loops/ralph-loop.5.local.md"
         -> Rooted(<<"home", ".claude", "ralph-wiggum-pro", "loops", "ralph-loop.5.local.md">>)

\* process.cwd() of the dashboard server
Cwd == <<"srv">>

\* path.normalize on the segments of an absolute path: "." is dropped and
\* ".." drops the segment before it
RECURSIVE Normalize(_, _)
Normalize(done, rest) ==
  IF rest = <<>> THEN done
  ELSE IF Head(rest) = "." THEN Normalize(done, Tail(rest))
  ELSE IF Head(rest) = ".."
    THEN Normalize(IF done = <<>> THEN <<>> ELSE SubSeq(done, 1, Len(done) - 1), Tail(rest))
  ELSE Normalize(Append(done, Head(rest)), Tail(rest))

\* path.resolve(a, b): the segments of the absolute, normalized path
ResolveIn(a, b) ==
  IF b.abs THEN Normalize(<<>>, b.segs)
  ELSE IF a.abs THEN Normalize(<<>>, a.segs \o b.segs)
  ELSE Normalize(<<>>, Cwd \o a.segs \o b.segs)

\* path.resolve(a)
Resolve(a) == ResolveIn(Relative(<<>>), a)

\* the segment names one of which is the beginning of the other
NamePrefixes == {<<".claude", ".claude-old">>, <<"m", "m1">>}

\* String.prototype.startsWith on two segment names
NameStartsWith(name, prefix) == name = prefix \/ <<prefix, name>> \in NamePrefixes

\* the text of a starts with the text of b, a and b absolute paths without a
\* trailing separator: every segment of b but the last is a segment of a, and
\* the last one begins the segment of a at its place
StartsWith(a, b) ==
  IF b = <<>> THEN TRUE
  ELSE /\ Len(a) >= Len(b)
       /\ SubSeq(a, 1, Len(b) - 1) = SubSeq(b, 1, Len(b) - 1)
       /\ NameStartsWith(a[Len(b)], b[Len(b)])

\* !x for a string
Falsy(x) == x \in {"", NullStr, UndefinedStr}

\* part_008 lines 14-31: validateStateFilePath
ValidateStateFilePath(stateFilePath, session) ==
  IF Falsy(session.project) THEN FALSE
  ELSE StartsWith(Resolve(PathOf(stateFilePath)),
                  ResolveIn(PathOf(session.project), PathOf(".claude")))

\* existsSync(path), the marker files being known by their location
ExistsSync(path, m) == Resolve(PathOf(path)) \in m

\* a CancelResult, with the marker files the call leaves
CancelResult(success, message, m) == [success |-> success, message |-> message, markers |-> m]

\* a cancelLoop that takes a marker that is already gone for a cancelled loop
CancelLoopLenient(session, m, unlinkThrows) ==
  IF session.status # "active" THEN CancelResult(FALSE, "is not active", m)
  ELSE IF Falsy(session.state_file_path) THEN CancelResult(FALSE, "No state file found", m)
  ELSE IF ~ValidateStateFilePath(session.state_file_path, session)
    THEN CancelResult(FALSE, "Invalid state file path", m)
  ELSE IF ~ExistsSync(session.state_file_path, m)
    THEN CancelResult(TRUE, "State file no longer exists", m)
  ELSE IF unlinkThrows THEN CancelResult(FALSE, "Failed to cancel loop", m)
  ELSE CancelResult(TRUE, "Successfully cancelled loop",
                    m \ {Resolve(PathOf(session.state_file_path))})

\* part_008 lines 33-77: cancelLoop
CancelLoop(session, m, unlinkThrows) ==
  IF session.status # "active" THEN CancelResult(FALSE, "is not active", m)
  ELSE IF Falsy(session.state_file_path) THEN CancelResult(FALSE, "No state file found", m)
  ELSE IF ~ValidateStateFilePath(session.state_file_path, session)
    THEN CancelResult(FALSE, "Invalid state file path", m)
  ELSE IF ~ExistsSync(session.state_file_path, m)
    THEN CancelResult(FALSE, "State file no longer exists", m)
  ELSE IF unlinkThrows THEN CancelResult(FALSE, "Failed to cancel loop", m)
  ELSE CancelResult(TRUE, "Successfully cancelled loop",
                    m \ {Resolve(PathOf(session.state_file_path))})

\* the Response of a request and the marker files it leaves
Answer(code, errorCode, message, sessionId, m) ==
  [response |-> [code |-> code, error |-> errorCode, message |-> message,
                 session_id |-> sessionId],
   markers |-> m]

\* a handler that leaves the check of the status to cancelLoop
CancelSessionUnchecked(f, m, sessionId, now, unlinkThrows) ==
  IF PropertyAccessThrows(ParseLogFile(f))
    THEN Answer(500, "CANCEL_ERROR", "Failed to cancel session", sessionId, m)
  ELSE LET session == GetSessionById(f, sessionId, now)
       IN IF session = NoSession
            THEN Answer(404, "NOT_FOUND", "Session not found", sessionId, m)
          ELSE LET res == CancelLoop(session, m, unlinkThrows)
               IN IF ~res.success
                    THEN Answer(500, "CANCEL_FAILED", res.message, sessionId, res.markers)
                  ELSE Answer(200, "", res.message, sessionId, res.markers)

\* part_009 lines 5-50: what handleCancelSession(sessionId) answers
CancelSession(f, m, sessionId, now, unlinkThrows) ==
  IF PropertyAccessThrows(ParseLogFile(f))
    THEN Answer(500, "CANCEL_ERROR", "Failed to cancel session", sessionId, m)
  ELSE LET session == GetSessionById(f, sessionId, now)
       IN IF session = NoSession
            THEN Answer(404, "NOT_FOUND", "Session not found", sessionId, m)
          ELSE IF session.status # "active"
            THEN Answer(400, "INVALID_STATE", "Cannot cancel session", sessionId, m)
          ELSE LET res == CancelLoop(session, m, unlinkThrows)
               IN IF ~res.success
                    THEN Answer(500, "CANCEL_FAILED", res.message, sessionId, res.markers)
                  ELSE Answer(200, "", res.message, sessionId, res.markers)

\* the session ids a cancel or delete request names
RequestIds == {5, 99}

\* a handler that also records the cancellation in the log
HandleCancelSessionLogging ==
  /\ \E sessionId \in RequestIds : \E now \in Nows : \E unlinkThrows \in BOOLEAN :
     \E a \in {CancelSession(logFile, markers, sessionId, now, unlinkThrows)} :
       /\ response' = a.response
       /\ markers' = a.markers
       /\ logFile' = IF a.response.code # 200 THEN logFile
                     ELSE File(logFile.data
                                 \o <<CompletionEntry(1, sessionId, "cancelled", now, 1, 1, NullStr)>>)
  /\ UNCHANGED <<maxEntries, otherRun, sessionList, backupFile, tempFile, transcripts, pc, locals,
                 inCatch, error, result, history>>

\* part_009 lines 5-50: handleCancelSession
HandleCancelSession ==
  /\ \E sessionId \in RequestIds : \E now \in Nows : \E unlinkThrows \in BOOLEAN :
     \E a \in {CancelSession(logFile, markers, sessionId, now, unlinkThrows)} :
       /\ response' = a.response
       /\ markers' = a.markers
  /\ UNCHANGED <<maxEntries, otherRun, sessionList, files, pc, locals, inCatch, error, result, history>>

\* ------------------------------------------------------------------------
\* The dashboard's delete: deleteSession, handleDeleteSession
\* ------------------------------------------------------------------------

\* what a call of deleteSession can meet: it goes through, its write fails
\* and it returns false, or it throws
DeleteOutcomes == {"ok", "false", "throws"}

\* deleteSession(sessionId): the log without the records of the session, the
\* lines that do not parse kept; false when there is no log or no such record
DeleteSession(f, sessionId, outcome) ==
  LET kept == SelectSeq(f.data, LAMBDA l : ~(l.kind = "obj" /\ GroupKey(l) = sessionId))
  IN IF ~f.exists \/ kept = f.data \/ outcome # "ok"
       THEN [deleted |-> FALSE, file |-> f]
     ELSE [deleted |-> TRUE, file |-> File(kept)]

\* the Response of a delete request and the log it leaves
DeleteAnswer(code, errorCode, sessionId, f) ==
  [response |-> [code |-> code, error |-> errorCode, session_id |-> sessionId],
   file |-> f]

\* a handler that deletes whatever the status of the session is
DeleteUnguarded(f, sessionId, now, outcome) ==
  IF PropertyAccessThrows(ParseLogFile(f))
    THEN DeleteAnswer(500, "DELETE_ERROR", sessionId, f)
  ELSE LET session == GetSessionById(f, sessionId, now)
           res == DeleteSession(f, sessionId, outcome)
       IN IF session = NoSession THEN DeleteAnswer(404, "NOT_FOUND", sessionId, f)
          ELSE IF outcome = "throws" THEN DeleteAnswer(500, "DELETE_ERROR", sessionId, f)
          ELSE IF ~res.deleted THEN DeleteAnswer(500, "DELETE_FAILED", sessionId, res.file)
          ELSE DeleteAnswer(200, "", sessionId, res.file)

\* delete.ts lines 4-50: what handleDeleteSession(sessionId) answers
Delete(f, sessionId, now, outcome) ==
  IF PropertyAccessThrows(ParseLogFile(f))
    THEN DeleteAnswer(500, "DELETE_ERROR", sessionId, f)
  ELSE LET session == GetSessionById(f, sessionId, now)
           res == DeleteSession(f, sessionId, outcome)
       IN IF session = NoSession THEN DeleteAnswer(404, "NOT_FOUND", sessionId, f)
          ELSE IF session.status = "active"
            THEN DeleteAnswer(400, "INVALID_STATE", sessionId, f)
          ELSE IF outcome = "throws" THEN DeleteAnswer(500, "DELETE_ERROR", sessionId, f)
          ELSE IF ~res.deleted THEN DeleteAnswer(500, "DELETE_FAILED", sessionId, res.file)
          ELSE DeleteAnswer(200, "", sessionId, res.file)

\* delete.ts lines 4-50: handleDeleteSession
HandleDeleteSession ==
  /\ \E sessionId \in AskedIds : \E now \in Nows : \E outcome \in DeleteOutcomes :
     \E a \in {Delete(logFile, sessionId, now, outcome)} :
       /\ response' = a.response
       /\ logFile' = a.file
  /\ UNCHANGED <<maxEntries, otherRun, markers, sessionList, backupFile, tempFile, transcripts, pc,
                 locals, inCatch, error, result, history>>

\* ------------------------------------------------------------------------
\* The command-line cancel: cancel-ralph-loop.sh
\* ------------------------------------------------------------------------

\* cancel-ralph-loop.sh line 17: the CLAUDE_SESSION_ID the script can run with
ScriptSessionIds == {5}

\* lines 13-14 and 33: STATE_FILE, $HOME being /home
StateFileText(sessionId) ==
  CASE sessionId = 5 -> "/home/.claude/ralph-wiggum-pro/loops/ralph-loop.5.local.md"

\* line 49: the completion event log-session.sh appends for the outcome
\* "cancelled" (loop 1 is the loop of the marker)
CancelledEntry(sessionId, now) ==
  CompletionEntry(1, sessionId, "cancelled", now, now - 1, 1, NullStr)

\* lines 32-52: with a state file, the script has the cancellation logged
\* (a logger that fails is ignored, line 49) and removes the state file;
\* without one it changes nothing (lines 35-40)
CancelScript ==
  /\ \E sessionId \in ScriptSessionIds : \E now \in Nows : \E logFails \in BOOLEAN :
       /\ ExistsSync(StateFileText(sessionId), markers)
       /\ logFile' = IF logFails THEN logFile
                     ELSE File(logFile.data \o <<CancelledEntry(sessionId, now)>>)
       /\ markers' = markers \ {Resolve(PathOf(StateFileText(sessionId)))}
  /\ UNCHANGED <<maxEntries, otherRun, sessionList, response, backupFile, tempFile, transcripts, pc,
                 locals, inCatch, error, result, history>>

\* line 49 run for a session whose log has no completion yet: log-session.sh
\* appends the completion event with outcome "cancelled"
LogCancelled ==
  /\ \E sessionId \in ScriptSessionIds : \E now \in Nows :
       /\ \A i \in DOMAIN logFile.data : logFile.data[i].status # "completed"
       /\ logFile' = File(logFile.data \o <<CancelledEntry(sessionId, now)>>)
  /\ UNCHANGED <<maxEntries, otherRun, reader, backupFile, tempFile, transcripts, pc,
                 locals, inCatch, error, result, history>>

\* ------------------------------------------------------------------------
\* Initial states
\* ------------------------------------------------------------------------

\* the records the enumerated part of a log is made of: loop 1 runs in
\* session 2; the legacy records of session 2 carry no loop_id
RecordLines ==
  {StartLine(1, 2, 2), CompletionLine(1, 2),
   StartLine(NoId, 2, 1), CompletionLine(NoId, 2)}

\* records, lines that do not parse and blank lines
LineSet == RecordLines \cup {MalformedLine, BlankLine}

\* the same and a line that parses to null
AnyLineSet == LineSet \cup {NullLine}

\* the lines of the short logs in which calls fail or another process appends
FaultLineSet == {StartLine(1, 2, 2), CompletionLine(1, 2), MalformedLine, BlankLine, NullLine}

\* the line another session appends: the completion record of its loop
AppendLines == {CompletionLine(3, 3)}

\* every sequence over S of length at most n
SeqsUpTo(S, n) == UNION {[1..k -> S] : k \in 0..n}

\* k sessions that have started and not completed
Running(k) == [i \in 1..k |-> StartLine(100 + i, 100 + i, 100 + i)]

\* g sessions that have started and completed, oldest first
Backlog(g) ==
  [i \in 1..(2 * g) |->
     IF i % 2 = 1 THEN StartLine(1000 + (i + 1) \div 2, 1000 + (i + 1) \div 2, 10 + i)
     ELSE CompletionLine(1000 + i \div 2, 1000 + i \div 2)]

\* logs around the ceiling: enumerated lines, then sessions that still run
NearLogs(S, n) == {v \o Running(MAX_SESSION_ENTRIES - 1) : v \in SeqsUpTo(S, n)}

\* logs of more than twice the ceiling, all but the enumerated lines purgeable
BacklogLogs(S, n) == {v \o Backlog(MAX_SESSION_ENTRIES + 1) : v \in SeqsUpTo(S, n)}

\* the identities for which transcript files exist
TranscriptsOf(f) == {LoopIdOf(f.data[i]) : i \in {j \in DOMAIN f.data : f.data[j].kind = "obj"}}

\* getSessions() has not been called
NotRead == [done |-> FALSE, list |-> <<>>]

\* no request has been answered
NoResponse == [code |-> 0]

\* a rotation that has not begun, as the second of two: its locals and its
\* temp file; whether Date.now() gives both rotations the same temp file name
\* (line 293); and, as history, the log the two rotations started from
Idle(sameTemp, f) ==
  [pc |-> "start", content |-> <<>>, purgeIds |-> {}, purgeCount |-> 0,
   filteredLines |-> <<>>, restoreData |-> <<>>, inCatch |-> FALSE, error |-> "",
   result |-> NoResult, tempFile |-> NoFile, sameTemp |-> sameTemp, logAtStart |-> f]

InitRun(ceiling, f) ==
  /\ maxEntries = ceiling
  /\ logFile = f
  /\ backupFile = NoFile
  /\ tempFile = NoFile
  /\ transcripts = TranscriptsOf(f)
  /\ pc = "start"
  /\ content = <<>>
  /\ purgeIds = {}
  /\ purgeCount = 0
  /\ filteredLines = <<>>
  /\ restoreData = <<>>
  /\ inCatch = FALSE
  /\ error = ""
  /\ result = NoResult
  /\ logWrites = 0
  /\ backupSaved = NoFile
  /\ appended = <<>>
  /\ restoreFailed = FALSE
  /\ stoppedAt = ""

InitWith(ceiling, f) ==
  /\ InitRun(ceiling, f)
  /\ markers = {}
  /\ sessionList = NotRead
  /\ response = NoResponse
  /\ otherRun = Idle(FALSE, logFile)

InitLogs == NearLogs(LineSet, MaxLen) \cup BacklogLogs(AnyLineSet, MaxBacklogLen)

Init ==
  \E f \in {NoFile} \cup {File(d) : d \in InitLogs} : InitWith(MAX_SESSION_ENTRIES, f)

InitFault ==
  \E d \in NearLogs(FaultLineSet, MaxFaultLen) : InitWith(MAX_SESSION_ENTRIES, File(d))

InitCeil ==
  \E c \in 0..MaxCeiling : \E d \in SeqsUpTo(AnyLineSet, MaxCeilLen) : InitWith(c, File(d))

\* ------------------------------------------------------------------------
\* Specifications
\* ------------------------------------------------------------------------

Next ==
  \/ Begin
  \/ WriteBackup
  \/ Compute
  \/ UnlinkNoop
  \/ RestoreTruncate
  \/ RestoreWrite
  \/ RestoreUnlink
  \/ WriteTemp
  \/ Rename
  \/ UnlinkBackup
  \/ DeleteTranscripts
  \/ CatchRead

\* one rotation, no failing call, no other process
Spec == Init /\ [][Next]_vars

NextFault ==
  \/ Next
  \/ IOFault
  \/ Crash

\* one rotation in which any file-system call may fail and the process may be killed
SpecFault == InitFault /\ [][NextFault]_vars

NextConc ==
  \/ Next
  \/ \E l \in AppendLines : AppendLine(l)

\* one rotation while another process appends to the log
SpecConc == InitFault /\ [][NextConc]_vars

\* one rotation under a configurable ceiling
SpecCeil == InitCeil /\ [][Next]_vars

\* the script run again and again with the real ceiling, on logs under, at and
\* over it
InitAgain ==
  \E f \in {NoFile} \cup {File(d) : d \in NearLogs(AnyLineSet, MaxAgainLen)
                                         \cup SeqsUpTo(LineSet, MaxAgainLen)} :
    InitWith(MAX_SESSION_ENTRIES, f)

NextAgain ==
  \/ Next
  \/ Reinvoke

SpecAgain == InitAgain /\ [][NextAgain]_vars

\* logs of one line over the ceiling: enumerated lines, then sessions that
\* still run
OverByOneLogs(S, n) ==
  {v \o Running(MAX_SESSION_ENTRIES + 1 - Len(v)) : v \in SeqsUpTo(S, n)}

\* logs from which a rotation purges some of the complete sessions and keeps
\* the others
InitOver ==
  \E d \in OverByOneLogs(AnyLineSet, MaxOverLen) \cup BacklogLogs(AnyLineSet, MaxBacklogLen) :
    InitWith(MAX_SESSION_ENTRIES, File(d))

SpecOver == InitOver /\ [][Next]_vars

\* the events of the logs the dashboard reconciles: session 5 ran loop 1,
\* cancelled it and runs loop 2; session 6 logged without loop_id
MergeStarts ==
  {StartEntry(1, 5, 1, "m1", "Original task", "DONE"),
   StartEntry(2, 5, 2, "m2", "Restarted task", NullStr),
   StartEntry(NoId, 6, 3, NoPath, "Legacy task", NullStr)}

MergeCompletions ==
  {CompletionEntry(1, 5, "cancelled", 4, 3, 2, NullStr),
   CompletionEntry(2, 5, "success", 8, 6, 5, NullStr),
   CompletionEntry(NoId, 6, "error", 9, 6, 7, "boom")}

MergeLineSet == MergeStarts \cup MergeCompletions \cup {MalformedLine}

\* the marker files there can be
MarkerPaths == {"m1", "m2"}

InitMerge ==
  \E f \in {NoFile} \cup {File(d) : d \in SeqsUpTo(MergeLineSet, MaxMergeLen)} :
  \E m \in SUBSET MarkerPaths :
    /\ InitRun(MAX_SESSION_ENTRIES, f)
    /\ markers = m
    /\ sessionList = NotRead
    /\ response = NoResponse
    /\ otherRun = Idle(FALSE, logFile)

NextMerge ==
  \/ GetSessions

SpecMerge == InitMerge /\ [][NextMerge]_vars

\* the dashboard reads the whole list or looks one session up
NextRead ==
  \/ GetSessions
  \/ LookUp

SpecRead == InitMerge /\ [][NextRead]_vars

\* logs of whole sessions, each with a loop of its own: the sessions come in
\* any order, start at any of the times, and some of them have completed
SortSessionIds == 7..(6 + MaxSortSessions)

SortTimes == {1, 2, 3}

\* the lines of one session: its start and, when it is over, its completion
SessionBlock(id, t, over) ==
  <<StartEntry(id, id, t, NoPath, "Task", NullStr)>>
    \o (IF over THEN <<CompletionEntry(id, id, "success", t + 1, 1, 1, NullStr)>> ELSE <<>>)

RECURSIVE SessionBlocks(_, _, _)
SessionBlocks(order, t, over) ==
  IF order = <<>> THEN <<>>
  ELSE SessionBlock(Head(order), t[Head(order)], Head(order) \in over)
         \o SessionBlocks(Tail(order), t, over)

\* the orders in which the sessions can come
Orders(S) ==
  {o \in [1..Cardinality(S) -> S] : \A i, j \in DOMAIN o : o[i] = o[j] => i = j}

SessionLogs ==
  {SessionBlocks(o, t, over) :
     o \in Orders(SortSessionIds), t \in [SortSessionIds -> SortTimes],
     over \in SUBSET SortSessionIds}

InitSort ==
  \E d \in SessionLogs :
    /\ InitRun(MAX_SESSION_ENTRIES, File(d))
    /\ markers = {}
    /\ sessionList = NotRead
    /\ response = NoResponse
    /\ otherRun = Idle(FALSE, logFile)

SpecSort == InitSort /\ [][NextMerge]_vars

\* logs of one session whose start gives a completion promise or none, in a
\* task text that carries the flag or not
PromiseLineSet ==
  {StartEntry(1, 5, t, "m1", text, promise) :
     t \in {1}, text \in {"Just a simple task", FlaggedTask}, promise \in {"EXPLICIT", NullStr}}
  \cup {CompletionEntry(1, 5, "success", 4, 3, 2, NullStr)}

InitPromise ==
  \E d \in SeqsUpTo(PromiseLineSet, MaxMergeLen) :
    /\ InitRun(MAX_SESSION_ENTRIES, File(d))
    /\ markers = {}
    /\ sessionList = NotRead
    /\ response = NoResponse
    /\ otherRun = Idle(FALSE, logFile)

SpecPromise == InitPromise /\ [][NextMerge]_vars

\* the bound of the logs a cancel request is answered from
MaxCancelLen == 2

\* the marker paths a start event can name: inside the project's .claude
\* directory (written plainly or through ".."), outside it through "..", in a
\* directory beside it whose name begins with .claude, in another project,
\* relative to the working directory, and none
CancelPathTexts ==
  {"/p/.claude/m1", "/p/.claude/../.claude/m1", "/p/.claude/../../etc/m",
   "/p/.claude-old/m", "/q/.claude/m", ".claude/m", NoPath}

\* logs of session 5: a start with any of the paths, with or without the
\* project, and its completion
CancelLineSet ==
  {StartEntry(1, 5, 1, path, "Task", NullStr) : path \in CancelPathTexts}
  \cup {[StartEntry(1, 5, 1, "/p/.claude/m1", "Task", NullStr) EXCEPT !.project = UndefinedStr]}
  \cup {CompletionEntry(1, 5, "success", 4, 3, 2, NullStr), NullLine}

\* the places a marker file can be at
MarkerLocations == {Resolve(PathOf(path)) : path \in CancelPathTexts \ {NoPath}}

InitCancel ==
  \E d \in SeqsUpTo(CancelLineSet, MaxCancelLen) :
  \E m \in SUBSET MarkerLocations :
    /\ InitRun(MAX_SESSION_ENTRIES, File(d))
    /\ markers = m
    /\ sessionList = NotRead
    /\ response = NoResponse
    /\ otherRun = Idle(FALSE, logFile)

NextCancel ==
  \/ HandleCancelSession

SpecCancel == InitCancel /\ [][NextCancel]_vars

\* a cancel request, the cancellation logged and the dashboard's list read,
\* in any order, on the logs of session 5 that can be read
InitCancelThen ==
  \E d \in SeqsUpTo(CancelLineSet \ {NullLine}, MaxCancelLen) :
  \E m \in SUBSET MarkerLocations :
    /\ InitRun(MAX_SESSION_ENTRIES, File(d))
    /\ markers = m
    /\ sessionList = NotRead
    /\ response = NoResponse
    /\ otherRun = Idle(FALSE, logFile)

NextCancelThen ==
  \/ HandleCancelSession
  \/ LogCancelled
  \/ GetSessions

SpecCancelThen == InitCancelThen /\ [][NextCancelThen]_vars

\* logs of session 5 whose marker is the state file of the command line or
\* a file of the project, with both ways to cancel
CancelAllPathTexts == {StateFileText(5), "/p/.claude/m1"}

CancelAllLineSet ==
  {StartEntry(1, 5, 1, path, "Task", NullStr) : path \in CancelAllPathTexts}
  \cup {CompletionEntry(1, 5, "success", 4, 3, 2, NullStr), MalformedLine}

InitCancelAll ==
  \E d \in SeqsUpTo(CancelAllLineSet, MaxCancelLen) :
  \E m \in SUBSET {Resolve(PathOf(path)) : path \in CancelAllPathTexts} :
    /\ InitRun(MAX_SESSION_ENTRIES, File(d))
    /\ markers = m
    /\ sessionList = NotRead
    /\ response = NoResponse
    /\ otherRun = Idle(FALSE, logFile)

NextCancelAll ==
  \/ HandleCancelSession
  \/ CancelScript

SpecCancelAll == InitCancelAll /\ [][NextCancelAll]_vars

\* the bound of the logs a delete request is answered from
MaxDeleteLen == 3

\* logs of sessions 5 and 6, running or over, with lines that do not parse
\* and a line that parses to null
DeleteLineSet ==
  {StartEntry(1, 5, 1, "/p/.claude/m1", "Task", NullStr),
   CompletionEntry(1, 5, "success", 4, 3, 2, NullStr),
   StartEntry(2, 6, 2, NoPath, "Other task", NullStr),
   CompletionEntry(2, 6, "error", 9, 6, 7, "boom"),
   MalformedLine, NullLine}

InitDelete ==
  \E f \in {NoFile} \cup {File(d) : d \in SeqsUpTo(DeleteLineSet, MaxDeleteLen)} :
    /\ InitRun(MAX_SESSION_ENTRIES, f)
    /\ markers = {}
    /\ sessionList = NotRead
    /\ response = NoResponse
    /\ otherRun = Idle(FALSE, logFile)

NextDelete ==
  \/ HandleDeleteSession

SpecDelete == InitDelete /\ [][NextDelete]_vars

\* the bound of the enumerated part of the logs two rotations run on
MaxTwoLen == 2

\* logs for two rotations: enumerated lines, two sessions that are over and
\* one that runs, so that the log after one rotation can be over the ceiling
\* again and hold a session to purge
TwoLogs == {v \o Backlog(2) \o Running(1) : v \in SeqsUpTo(FaultLineSet, MaxTwoLen)}

InitTwo ==
  \E c \in 1..MaxCeiling : \E d \in TwoLogs : \E sameTemp \in BOOLEAN :
    /\ InitRun(c, File(d))
    /\ markers = {}
    /\ sessionList = NotRead
    /\ response = NoResponse
    /\ otherRun = Idle(sameTemp, File(d))

\* the steps of a rotation whose files another rotation can remove
NextTwo ==
  \/ FileThere /\ Next
  \/ RestoreWritePartly
  \/ FileGone
  \/ Switch

\* two rotations of the same log, interleaved at every file-system call, no
\* call failing but for a file the other rotation removed, no other writer
SpecTwo == InitTwo /\ [][NextTwo]_vars

\* the script run again and again on logs over the ceiling: logs of complete
\* pairs only (up to two pairs in any order of their lines, then a backlog),
\* a backlog behind one line of any kind, and sessions that all still run
MaxRepeatPairs == 103

PairsOnly(v) ==
  \A id \in {LoopIdOf(v[i]) : i \in DOMAIN v} :
    \A st \in {"active", "completed"} :
      Cardinality({i \in DOMAIN v : LoopIdOf(v[i]) = id /\ v[i].status = st}) = 1

\* backlogs that bring the log just over the ceiling, and over twice the ceiling
RepeatBacklogs == {MAX_SESSION_ENTRIES \div 2 - 1, MAX_SESSION_ENTRIES \div 2 + 1,
                   MAX_SESSION_ENTRIES, MaxRepeatPairs - 1, MaxRepeatPairs}

PairLogs ==
  {d \in {v \o Backlog(g) : v \in {w \in SeqsUpTo(RecordLines, 4) : PairsOnly(w)},
                            g \in RepeatBacklogs} :
     Len(d) > MAX_SESSION_ENTRIES}

RepeatLogs == PairLogs \cup BacklogLogs(AnyLineSet, 1) \cup {Running(MAX_SESSION_ENTRIES + 1)}

InitRepeat == \E d \in RepeatLogs : InitWith(MAX_SESSION_ENTRIES, File(d))

\* the statements that call the file system or return, and the next invocation
FileSteps ==
  \/ Begin
  \/ WriteBackup
  \/ UnlinkNoop
  \/ RestoreTruncate
  \/ RestoreWrite
  \/ RestoreUnlink
  \/ WriteTemp
  \/ Rename
  \/ UnlinkBackup
  \/ DeleteTranscripts
  \/ CatchRead
  \/ Reinvoke

\* the script is a sequential program that the caller runs again after each
\* return: every enabled statement is taken. For the in-memory statement
\* (lines 129-290, enabled exactly when pc = "compute", and leaving it) weak
\* fairness is the formula []<>(pc # "compute").
SpecRepeat ==
  /\ InitRepeat
  /\ [][NextAgain]_vars
  /\ WF_vars(FileSteps)
  /\ []<>(pc # "compute")

\* logs in which loop 1 of session 5 has started twice and completed twice,
\* beside a second loop of the session, read by the dashboard and rotated
\* under a small ceiling
MaxGroupLen == 3

GroupLineSet ==
  {StartEntry(1, 5, 1, "m1", "Original task", "DONE"),
   StartEntry(1, 5, 3, "m1", "Retried task", NullStr),
   StartEntry(2, 5, 2, "m2", "Restarted task", NullStr),
   CompletionEntry(1, 5, "cancelled", 4, 3, 2, NullStr),
   CompletionEntry(1, 5, "success", 8, 6, 5, NullStr),
   NullLine}

InitGroup ==
  \E c \in 1..MaxCeiling :
  \E f \in {NoFile} \cup {File(d) : d \in SeqsUpTo(GroupLineSet, MaxGroupLen)} :
    /\ InitRun(c, f)
    /\ markers = {}
    /\ sessionList = NotRead
    /\ response = NoResponse
    /\ otherRun = Idle(FALSE, logFile)

\* getSessions() on a log with a null entry throws and returns nothing
NextGroup ==
  \/ ~PropertyAccessThrows(ParseLogFile(logFile)) /\ GetSessions
  \/ Next

SpecGroup == InitGroup /\ [][NextGroup]_vars

\* a rotation under a small ceiling of a log of full start and completion
\* events, which the dashboard reconciles before and after
InitRotateMerge ==
  \E c \in 1..MaxCeiling :
  \E f \in {NoFile} \cup {File(d) : d \in SeqsUpTo(MergeLineSet \cup {NullLine}, MaxMergeLen)} :
  \E m \in SUBSET MarkerPaths :
    /\ InitRun(c, f)
    /\ markers = m
    /\ sessionList = NotRead
    /\ response = NoResponse
    /\ otherRun = Idle(FALSE, logFile)

SpecRotateMerge == InitRotateMerge /\ [][Next]_vars

\* ------------------------------------------------------------------------
\* What a rotation did to the log
\* ------------------------------------------------------------------------

\* the lines of the log now, as a reader splits them
after == NonBlankLines(logFile.data)

\* the rotation has returned
Returned == pc = "done"

\* the identities of the records among the lines in the set L
IdentitiesIn(L) == {LoopIdOf(l) : l \in {x \in L : x.kind = "obj"}}

\* the records of one identity in a sequence of lines, with one status or any
RecordsOf(s, id) == {i \in DOMAIN s : s[i].kind = "obj" /\ LoopIdOf(s[i]) = id}

RecordsWith(s, id, st) == {i \in RecordsOf(s, id) : s[i].status = st}

\* how many times the line l occurs
Occurrences(s, l) == Cardinality({i \in DOMAIN s : s[i] = l})

\* the lines that fail to parse
Unparsable(s) == {l \in Range(s) : ParseThrows(l)}

\* the identity has exactly one start and one completion and no other record
IsPair(s, id) ==
  /\ Cardinality(RecordsOf(s, id)) = 2
  /\ Cardinality(RecordsWith(s, id, "active")) = 1
  /\ Cardinality(RecordsWith(s, id, "completed")) = 1

\* every identity in V has lost all its records, it was a pair, and nothing
\* else is gone: the log is shorter by two lines for each of them
OnlyPairsGone(before, now, V) ==
  /\ \A id \in V : IsPair(before, id) /\ RecordsOf(now, id) = {}
  /\ Len(before) - Len(now) = 2 * Cardinality(V)

\* ------------------------------------------------------------------------
\* Claims
\* ------------------------------------------------------------------------

\* C1: a rotation of a log of N > 100 non-blank lines removes at most
\* floor(N/2) of them.
C1_RemovesAtMostHalf ==
  Returned /\ entryCount > MAX_SESSION_ENTRIES
    => entryCount - Len(after) <= entryCount \div 2

\* C2: every line a rotation removes belongs to an identity that had exactly
\* two records, one start and one completion, and such an identity loses
\* both; an identity with only a start, only a completion or more than two
\* records keeps all its lines.
C2_OnlyCompletePairsPurged ==
  Returned /\ logFile.data # content
    => /\ \A l \in Range(lines) \ Range(after) : l.kind = "obj"
       /\ OnlyPairsGone(lines, after, IdentitiesIn(Range(lines) \ Range(after)))

\* C2 witness: a rotation purged an identity and left a record of an identity
\* that has a start and no completion, in a log that also holds a legacy record
C2_Witness ==
  /\ Returned
  /\ result.sessionsPurged = 1
  /\ Len(after) = entryCount - 2
  /\ \E i \in DOMAIN after :
       /\ after[i].kind = "obj"
       /\ after[i].loop_id = NoId
       /\ RecordsWith(after, LoopIdOf(after[i]), "completed") = {}

\* C3: a line another process appends while the rotation runs is in the log
\* when the rotation has returned.
C3_AppendedLineSurvives ==
  Returned => \A i \in DOMAIN appended : appended[i] \in Range(logFile.data)

\* C4: at every point of a rotation the log file holds the complete
\* pre-rotation content or the complete post-rotation content.
C4_LogNeverTorn ==
  pc # "start"
    => \/ logFile.data = content
       \/ /\ pc \in {"unlinkBackup", "transcripts", "done"}
          /\ purgeIds # {}
          /\ logFile.data = filteredLines

\* C5: a log over the ceiling that holds a purgeable pair and a line that
\* does not parse is rotated with success: the pair is removed and the
\* unparsable line is kept.
C5_UnparsableLineIsNoError ==
  /\ Returned
  /\ entryCount > MAX_SESSION_ENTRIES
  /\ Unparsable(lines) # {}
  /\ \E id \in IdentitiesIn(Range(lines)) : IsPair(lines, id)
  => /\ result.success
     /\ result.sessionsPurged >= 1
     /\ Len(after) < entryCount
     /\ \A l \in Unparsable(lines) : Occurrences(after, l) = Occurrences(lines, l)

C8_BackupBeforeAnyWrite ==
  /\ logWrites > 0 => backupSaved = File(content)
  /\ Returned /\ result.error = "Failed to create backup"
       => ~result.success /\ logWrites = 0 /\ logFile = File(content)

\* C8 witness: the log file has been written, after the backup
C8_Witness ==
  /\ logWrites > 0
  /\ backupSaved = File(content)

\* C9: a rotation that fails after the backup was created, and whose restore
\* did not itself fail, leaves the log with exactly the pre-rotation content
\* and leaves no backup file.
C9_FailureRestoresLog ==
  Returned /\ ~result.success /\ backupSaved.exists /\ ~restoreFailed
    => logFile = File(content) /\ ~backupFile.exists

\* C9 witness: a failed rotation has rewritten the log of a file with a blank
\* line and removed the backup
C9_Witness ==
  /\ Returned
  /\ ~result.success
  /\ backupSaved.exists
  /\ ~restoreFailed
  /\ logWrites > 0
  /\ Len(content) > entryCount

\* C10: when the process stops after the temporary file was written and before
\* the rename, the log file holds the complete pre-rotation content.
C10_CrashBeforeRenameKeepsLog ==
  pc = "crashed" /\ stoppedAt = "rename" => logFile = File(content)

\* C10 witness: the process was killed between the write of the temporary
\* file and the rename
C10_Witness ==
  /\ pc = "crashed"
  /\ stoppedAt = "rename"
  /\ tempFile = File(filteredLines)
  /\ Len(filteredLines) < entryCount

\* ------------------------------------------------------------------------
\* C11: when the log file is absent or holds at most 100 non-blank lines,
\* rotateSessionLog returns success with sessionsPurged = 0 and
\* entriesAfter = entriesBefore in one step that writes nothing: the log, the
\* backup and the temporary file are as before; and when the run before
\* was such a no-op too, the result is the same again.
\* ------------------------------------------------------------------------
AtOrUnderCeiling ==
  ~logFile.exists \/ Len(NonBlankLines(logFile.data)) <= MAX_SESSION_ENTRIES

LinesOnDisk == IF logFile.exists THEN Len(NonBlankLines(logFile.data)) ELSE 0

C11_NoOpAtOrUnderCeiling ==
  [][(pc = "start" /\ AtOrUnderCeiling) =>
       /\ pc' = "done"
       /\ result' = Success(LinesOnDisk, LinesOnDisk, 0)
       /\ UNCHANGED <<logFile, backupFile, tempFile, transcripts, logWrites>>
       /\ (result.success /\ result.sessionsPurged = 0) => result' = result]_vars

\* the script is about to run a second time on a log it left untouched
C11_Witness ==
  /\ pc = "start"
  /\ AtOrUnderCeiling
  /\ logFile.exists
  /\ Len(NonBlankLines(logFile.data)) = MAX_SESSION_ENTRIES
  /\ result = Success(MAX_SESSION_ENTRIES, MAX_SESSION_ENTRIES, 0)

\* ------------------------------------------------------------------------
\* C12: the purge set is chosen oldest-first: when a rotation purges an
\* identity whose start has started_at = t, every identity with exactly one
\* start and one completion whose start is earlier than t is purged by the
\* same rotation.
\* ------------------------------------------------------------------------
\* the identities with exactly one start and one completion
PairsIn(s) == {id \in IdentitiesIn(Range(s)) : IsPair(s, id)}

\* started_at of the one start record of each of them
StartedAtIn(s, ids) ==
  [id \in ids |-> s[CHOOSE i \in RecordsWith(s, id, "active") : TRUE].started_at]

\* no identity in gone is younger than one that stayed
OldestGone(t, gone) ==
  \A id \in gone : \A other \in DOMAIN t : t[other] < t[id] => other \in gone

C12_OldestFirst ==
  Returned /\ result.success /\ result.sessionsPurged > 0
    => \E pairs \in {PairsIn(lines)} :
         \E gone \in {{id \in pairs : RecordsOf(after, id) = {}}} :
           /\ Cardinality(gone) = result.sessionsPurged
           /\ OldestGone(StartedAtIn(lines, pairs), gone)

\* C12 witness: a rotation purged the older of two pairs and kept the younger,
\* which comes first in the file
C12_Witness ==
  /\ Returned
  /\ result.sessionsPurged = 1
  /\ RecordsOf(after, 2) = {}
  /\ IsPair(after, 1)
  /\ lines[1] = StartLine(1, 2, 2)

\* ------------------------------------------------------------------------
\* C13: the returned result matches the file.  A success with
\* sessionsPurged = k has entriesAfter = entriesBefore - 2k and the log holds
\* entriesAfter non-blank lines; a failure has entriesAfter = entriesBefore
\* and sessionsPurged = 0 and the log holds entriesBefore non-blank lines.
\* ------------------------------------------------------------------------
SuccessMatchesFile ==
  /\ result.entriesAfter = result.entriesBefore - 2 * result.sessionsPurged
  /\ Len(after) = result.entriesAfter

FailureCounts ==
  /\ result.entriesAfter = result.entriesBefore
  /\ result.sessionsPurged = 0

\* C13 as stated: on every failure the log holds entriesBefore lines
C13_ResultMatchesFile ==
  Returned =>
    IF result.success THEN SuccessMatchesFile
    ELSE FailureCounts /\ Len(after) = result.entriesBefore

\* C13 amended: the same, and on a failure the log holds entriesBefore lines
\* unless the restore from the backup itself failed
C13_ResultMatchesFileUnlessRestoreFailed ==
  Returned =>
    IF result.success THEN SuccessMatchesFile
    ELSE FailureCounts /\ (~restoreFailed => Len(after) = result.entriesBefore)

\* C13 witness: a rotation purged one session and the log is two lines shorter
C13_Witness ==
  /\ Returned
  /\ result.success
  /\ result.sessionsPurged = 1
  /\ logFile = File(filteredLines)
  /\ Len(after) = result.entriesBefore - 2

\* ------------------------------------------------------------------------
\* C14: when an exception occurred during the rotation and the restore from
\* the backup failed too, rotateSessionLog returns success = false and the
\* backup file is still there, holding the content read before the rotation.
\* ------------------------------------------------------------------------
C14_FailedRestoreKeepsBackup ==
  Returned /\ restoreFailed
    => /\ ~result.success
       /\ backupFile.exists
       /\ backupFile.data = content

\* C14 witness: the restoring write threw after it had truncated a log that
\* was not empty
C14_Witness ==
  /\ Returned
  /\ restoreFailed
  /\ logFile = File(<<>>)
  /\ entryCount > MAX_SESSION_ENTRIES
  /\ backupFile = File(content)

\* ------------------------------------------------------------------------
\* C15: transcript files are deleted only after the rewritten log has been
\* committed, and only for identities of the purge set of this rotation; the
\* cleanup, failing or not, ends in a success result and leaves the rewritten
\* log in place.
\* ------------------------------------------------------------------------
C15_TranscriptsAfterCommit ==
  [][/\ transcripts' # transcripts
         => /\ pc = "transcripts"
            /\ logFile = File(filteredLines)
            /\ ~backupFile.exists
            /\ (transcripts \ transcripts') \subseteq purgeIds
            /\ \A id \in transcripts \ transcripts' : RecordsOf(after, id) = {}
            /\ transcripts' \subseteq transcripts
     /\ (pc = "transcripts" /\ pc' # "crashed")
         => /\ pc' = "done"
            /\ result'.success
            /\ result'.sessionsPurged = Cardinality(purgeIds)
            /\ logFile' = logFile]_vars

\* C15 witness: a rotation returned success with the log rewritten although
\* the transcript of a purged identity could not be deleted
C15_Witness ==
  /\ Returned
  /\ result.success
  /\ result.sessionsPurged > 0
  /\ purgeIds \cap transcripts # {}
  /\ logFile = File(filteredLines)

\* ------------------------------------------------------------------------
\* What the reconciler returned
\* ------------------------------------------------------------------------

\* the events the reconciler was given
logged == ParseLogFile(logFile)

\* the start and completion events of one effective identity, in log order
StartsOf(id) == SelectSeq(logged, LAMBDA e : e.status = "active" /\ LoopIdOf(e) = id)

CompletionsOf(id) == SelectSeq(logged, LAMBDA e : e.status = "completed" /\ LoopIdOf(e) = id)

\* reading a property of a record that may not have it
Prop(r, name) == IF name \in DOMAIN r THEN r[name] ELSE Undefined

\* the records that show the start event e
RecordsShowing(e) ==
  {i \in DOMAIN sessionList.list :
     /\ sessionList.list[i].session_id = e.session_id
     /\ sessionList.list[i].started_at = e.started_at
     /\ sessionList.list[i].task = e.task}

\* the last element of a sequence that is not empty
Last(q) == q[Len(q)]

\* the status the events of the identity of the start e call for: the outcome
\* of its completion, and without one, the state its marker file shows
StatusOwed(e) ==
  IF CompletionsOf(LoopIdOf(e)) # <<>> THEN Last(CompletionsOf(LoopIdOf(e))).outcome
  ELSE IF e.state_file_path # NoPath /\ e.state_file_path \notin markers THEN "orphaned"
  ELSE "active"

\* ------------------------------------------------------------------------
\* C16: two start events with the same session_id and different loop_ids
\* reconcile into two separate session records, and a completion event sets
\* the status of only the record whose loop_id it carries.
\* ------------------------------------------------------------------------
C16_RestartGivesTwoRecords ==
  sessionList.done =>
    \A i, j \in DOMAIN logged :
      /\ logged[i].status = "active" /\ logged[j].status = "active"
      /\ logged[i].session_id = logged[j].session_id
      /\ logged[i].loop_id # NoId /\ logged[j].loop_id # NoId
      /\ logged[i].loop_id # logged[j].loop_id
      => /\ Cardinality(RecordsShowing(logged[i]) \cup RecordsShowing(logged[j])) = 2
         /\ \A e \in {logged[i], logged[j]} : \A r \in RecordsShowing(e) :
              IF CompletionsOf(e.loop_id) # <<>>
                THEN sessionList.list[r].status = Last(CompletionsOf(e.loop_id)).outcome
                ELSE sessionList.list[r].status \in {"active", "orphaned"}

\* ------------------------------------------------------------------------
\* C17: a start and a completion that both lack loop_id and share a
\* session_id reconcile into exactly one record, whose loop_id is that
\* session_id and whose status is the outcome of the completion; the rotation
\* groups them under the same identity.
\* ------------------------------------------------------------------------
C17_LegacyGroupedBySessionId ==
  sessionList.done =>
    \A i, j \in DOMAIN logged :
      /\ logged[i].status = "active" /\ logged[j].status = "completed"
      /\ logged[i].loop_id = NoId /\ logged[j].loop_id = NoId
      /\ logged[i].session_id = logged[j].session_id
      => /\ LoopIdOf(logged[i]) = LoopIdOf(logged[j])
         /\ \E r \in DOMAIN sessionList.list :
              /\ \A q \in DOMAIN sessionList.list :
                   sessionList.list[q].session_id = logged[i].session_id => q = r
              /\ sessionList.list[r].session_id = logged[i].session_id
              /\ sessionList.list[r].status = Last(CompletionsOf(logged[i].session_id)).outcome
              /\ Prop(sessionList.list[r], "loop_id") = logged[i].session_id

\* ------------------------------------------------------------------------
\* C18: an identity with a start and no completion reconciles to orphaned
\* when the start gives a marker path and the marker file does not exist,
\* and to active when the marker file exists or the start gives no path.
\* ------------------------------------------------------------------------
C18_OrphanedWhenMarkerMissing ==
  sessionList.done =>
    \A i \in DOMAIN logged :
      /\ logged[i].status = "active"
      /\ logged[i] = Last(StartsOf(LoopIdOf(logged[i])))
      /\ CompletionsOf(LoopIdOf(logged[i])) = <<>>
      => /\ RecordsShowing(logged[i]) # {}
         /\ \A r \in RecordsShowing(logged[i]) :
              sessionList.list[r].status = StatusOwed(logged[i])

\* ------------------------------------------------------------------------
\* C19: a completion event with no start event of its identity yields
\* exactly one record: status orphaned, task 'Orphaned: ' and the outcome,
\* duration_seconds and iterations those of the completion.
\* ------------------------------------------------------------------------
OrphanTask(outcome) ==
  CASE outcome = "success" -> "Orphaned: success"
    [] outcome = "cancelled" -> "Orphaned: cancelled"
    [] outcome = "error" -> "Orphaned: error"
    [] outcome = "max_iterations" -> "Orphaned: max_iterations"

C19_CompletionOnlyIsSurfaced ==
  sessionList.done =>
    \A i \in DOMAIN logged :
      /\ logged[i].status = "completed"
      /\ StartsOf(LoopIdOf(logged[i])) = <<>>
      /\ logged[i] = Last(CompletionsOf(LoopIdOf(logged[i])))
      => Cardinality({r \in DOMAIN sessionList.list :
                        /\ sessionList.list[r].session_id = logged[i].session_id
                        /\ sessionList.list[r].status = "orphaned"
                        /\ sessionList.list[r].task = OrphanTask(logged[i].outcome)
                        /\ sessionList.list[r].duration_seconds = logged[i].duration_seconds
                        /\ sessionList.list[r].iterations = logged[i].iterations}) = 1

\* ------------------------------------------------------------------------
\* C20: an identity with a start and a completion has a record whose status
\* is the outcome of the completion, whether or not the marker file exists,
\* and whose ended_at, duration_seconds, iterations and error_reason are
\* those of the completion.
\* ------------------------------------------------------------------------
C20_CompletionDecidesRecord ==
  sessionList.done =>
    \A i, j \in DOMAIN logged :
      /\ logged[i].status = "active" /\ logged[j].status = "completed"
      /\ LoopIdOf(logged[i]) = LoopIdOf(logged[j])
      /\ logged[i] = Last(StartsOf(LoopIdOf(logged[i])))
      /\ logged[j] = Last(CompletionsOf(LoopIdOf(logged[i])))
      => /\ RecordsShowing(logged[i]) # {}
         /\ \A r \in RecordsShowing(logged[i]) :
              /\ sessionList.list[r].status = logged[j].outcome
              /\ sessionList.list[r].ended_at = logged[j].ended_at
              /\ sessionList.list[r].duration_seconds = logged[j].duration_seconds
              /\ sessionList.list[r].iterations = logged[j].iterations
              /\ sessionList.list[r].error_reason = logged[j].error_reason

\* ------------------------------------------------------------------------
\* C21: mergeSessions returns every record with status active before every
\* record with another status, and the records with another status in
\* descending order of started_at.
\* ------------------------------------------------------------------------
C21_ActiveFirstThenNewest ==
  sessionList.done =>
    \A i, j \in DOMAIN sessionList.list :
      i < j =>
        /\ sessionList.list[j].status = "active" => sessionList.list[i].status = "active"
        /\ (sessionList.list[i].status # "active" /\ sessionList.list[j].status # "active")
             => sessionList.list[i].started_at >= sessionList.list[j].started_at

\* C21 witness: the log holds a completed session started at 1, then one
\* started at 2, then a running one; the records come back in reverse
C21_Witness ==
  /\ sessionList.done
  /\ Len(sessionList.list) = 3
  /\ logged[1].started_at = 1 /\ logged[3].started_at = 2
  /\ sessionList.list[1].status = "active"
  /\ sessionList.list[2].status = "success" /\ sessionList.list[2].started_at = 2
  /\ sessionList.list[3].status = "success" /\ sessionList.list[3].started_at = 1

\* ------------------------------------------------------------------------
\* C22: the records with status active keep their original relative order,
\* the order in which their identities first appear in the log; they are not
\* re-ordered by started_at.
\* ------------------------------------------------------------------------
\* where the identity of a record first appears in the log
FirstSeen(r) ==
  MinOr({k \in DOMAIN logged : logged[k].session_id = r.session_id}, 0)

C22_ActiveKeepLogOrder ==
  sessionList.done =>
    \A i, j \in DOMAIN sessionList.list :
      /\ i < j
      /\ sessionList.list[i].status = "active"
      /\ sessionList.list[j].status = "active"
      => FirstSeen(sessionList.list[i]) < FirstSeen(sessionList.list[j])

\* ------------------------------------------------------------------------
\* C23: a record's completion_promise is the explicit completion_promise of
\* its start event whenever that is not null, also when the task text carries
\* a --completion-promise flag; it is null when the explicit value is null
\* and the task text carries no flag.
\* ------------------------------------------------------------------------
\* the start event a record was built from: the last start of its group
StartShown(r) ==
  Last(SelectSeq(logged, LAMBDA e : e.status = "active" /\ e.session_id = r.session_id))

C23_ExplicitPromiseWins ==
  sessionList.done =>
    \A i \in DOMAIN sessionList.list :
      /\ StartShown(sessionList.list[i]).completion_promise # NullStr
           => sessionList.list[i].completion_promise
                = StartShown(sessionList.list[i]).completion_promise
      /\ (/\ StartShown(sessionList.list[i]).completion_promise = NullStr
          /\ FlagOf(StartShown(sessionList.list[i]).task) = NullStr)
           => sessionList.list[i].completion_promise = NullStr

\* C23 witness: a record shows the explicit promise of a start whose task
\* text carries another one
C23_Witness ==
  /\ sessionList.done
  /\ Len(sessionList.list) = 1
  /\ sessionList.list[1].task = FlaggedTask
  /\ sessionList.list[1].completion_promise = "EXPLICIT"

\* ------------------------------------------------------------------------
\* C24: reconciliation (parseLogFile, mergeSessions, getSessions,
\* getSessionById) never writes: the log file and the set of marker files
\* that exist are the same after the call as before it, whatever the log
\* holds.
\* ------------------------------------------------------------------------
C24_ReconciliationNeverWrites ==
  [][sessionList' # sessionList
       => UNCHANGED <<logFile, markers, backupFile, tempFile, transcripts>>]_vars

\* C24 witness: the dashboard was given the one session of a log that also
\* holds a line that does not parse, and the line and the marker are there
C24_Witness ==
  /\ sessionList.done
  /\ Len(sessionList.list) = 1
  /\ logFile.exists
  /\ Len(logFile.data) = MaxMergeLen
  /\ logFile.data[1] = MalformedLine
  /\ markers = {"m2"}

\* the session a request names, as the log gives it when the request is made
Reread(sessionId) == GetSessionById(logFile, sessionId, CHOOSE now \in Nows : TRUE)

\* the log can be reconciled without an exception
Readable == ~PropertyAccessThrows(ParseLogFile(logFile))

\* C25: a cancel request removes a marker file only when the session, read
\* from the log at the time of the call, is active; it answers 404 for a
\* session the log does not know and 400 for a session with another status,
\* and removes nothing then.
C25_CancelOnlyActive ==
  [][/\ markers' # markers
        => /\ Readable
           /\ Reread(response'.session_id) # NoSession
           /\ Reread(response'.session_id).status = "active"
     /\ (response' # response /\ Readable)
        => LET session == Reread(response'.session_id)
           IN /\ session = NoSession
                   => response'.code = 404 /\ markers' = markers
              /\ (session # NoSession /\ session.status # "active")
                   => response'.code = 400 /\ markers' = markers]_vars

\* C25 witness: the cancel of a completed session was answered 400 and the
\* marker the session names is still there
C25_Witness ==
  /\ response.code = 400
  /\ Len(logFile.data) = 2
  /\ logFile.data[1].state_file_path = "/p/.claude/m1"
  /\ logFile.data[2].status = "completed"
  /\ <<"p", ".claude", "m1">> \in markers

\* the location is inside the directory: below it in the tree
Inside(loc, dir) == Len(loc) > Len(dir) /\ SubSeq(loc, 1, Len(dir)) = dir

\* the directory the marker of the session has to be in, <project>/.claude
MarkerDir(session) == ResolveIn(PathOf(session.project), PathOf(".claude"))

\* the marker path of the session resolves to a place inside that directory
PathIsInside(session) ==
  /\ ~Falsy(session.project)
  /\ ~Falsy(session.state_file_path)
  /\ Inside(Resolve(PathOf(session.state_file_path)), MarkerDir(session))

\* C26: cancelLoop never deletes a file whose resolved, normalized path lies
\* outside <session.project>/.claude: when the marker path of the session
\* resolves to a place that is not inside that directory, or the session has
\* no project, the cancel fails and no file is removed.
C26_NeverDeletesOutside ==
  [][(response' # response \/ markers' # markers) /\ Readable
       => LET session == Reread(response'.session_id)
          IN (session # NoSession /\ ~PathIsInside(session))
               => response'.code # 200 /\ markers' = markers]_vars

\* a cancel request was answered for an active session whose marker path is
\* inside its project's .claude directory and whose marker file was gone
MarkerGone ==
  /\ response' # response
  /\ Readable
  /\ Reread(response'.session_id) # NoSession
  /\ Reread(response'.session_id).status = "active"
  /\ PathIsInside(Reread(response'.session_id))
  /\ ~ExistsSync(Reread(response'.session_id).state_file_path, markers)

\* C27 (as claimed): when the session is active and its marker path is valid
\* but the marker file no longer exists, the cancel reports success and
\* deletes nothing.
C27_MissingMarkerIsSuccess ==
  [][MarkerGone => response'.code = 200 /\ markers' = markers]_vars

\* C27 (amended): when the session is active and its marker path is valid but
\* the marker file no longer exists, the cancel reports failure with the
\* message that the state file no longer exists, and deletes nothing.
C27_MissingMarkerIsFailure ==
  [][MarkerGone
       => /\ response'.code = 500
          /\ response'.error = "CANCEL_FAILED"
          /\ response'.message = "State file no longer exists"
          /\ markers' = markers]_vars

\* C27 witness: the cancel of a running session whose marker, named through
\* "..", is gone was answered, with the other marker files in place
C27_Witness ==
  /\ response.code = 500
  /\ response.message = "State file no longer exists"
  /\ Len(logFile.data) = 1
  /\ logFile.data[1].state_file_path = "/p/.claude/../.claude/m1"
  /\ markers = MarkerLocations \ {<<"p", ".claude", "m1">>}

\* the files of the rotation, which no cancel touches
OtherFilesKept == UNCHANGED <<backupFile, tempFile, transcripts>>

\* C28 (as claimed): cancelling a loop does not itself append a completion
\* event: whenever a cancel removes a marker file, the log is the same after
\* it as before and the marker is the only file that changed.
C28_CancelNeverAppends ==
  [][markers' # markers
       => /\ logFile' = logFile
          /\ OtherFilesKept
          /\ Cardinality(markers \ markers') = 1
          /\ markers' \subseteq markers]_vars

\* C28 (amended): a cancel request of the dashboard does not itself append a
\* completion event: the log is the same after the request as before, and the
\* only file that can change is the marker of the session, which is removed.
C28_DashboardCancelNeverAppends ==
  [][response' # response
       => /\ logFile' = logFile
          /\ OtherFilesKept
          /\ markers' \subseteq markers
          /\ markers' # markers
               => markers \ markers'
                    = {Resolve(PathOf(Reread(response'.session_id).state_file_path))}]_vars

\* C28 witness: the dashboard cancelled the running session 5; its marker is
\* gone, the state file of the command line is there, and the log is the one
\* start event
C28_Witness ==
  /\ response.code = 200
  /\ response.session_id = 5
  /\ logFile.data = <<StartEntry(1, 5, 1, "/p/.claude/m1", "Task", NullStr)>>
  /\ markers = {Resolve(PathOf(StateFileText(5)))}

\* C29: handleDeleteSession never removes a session whose reconciled status
\* is active: it answers 400 INVALID_STATE and leaves the log alone; it
\* answers 404 for an id the log does not know; it reports success only when
\* deleteSession returned true, and anything but a success leaves the log as
\* it was.
C29_DeleteNeverActive ==
  [][(response' # response /\ Readable)
       => LET session == Reread(response'.session_id)
          IN /\ session = NoSession => response'.code = 404 /\ logFile' = logFile
             /\ (session # NoSession /\ session.status = "active")
                  => /\ response'.code = 400
                     /\ response'.error = "INVALID_STATE"
                     /\ logFile' = logFile
             /\ response'.code = 200
                  => /\ DeleteSession(logFile, response'.session_id, "ok").deleted
                     /\ logFile' = DeleteSession(logFile, response'.session_id, "ok").file
             /\ response'.code # 200 => logFile' = logFile]_vars

\* C29 witness: the delete of the running session 5 was answered 400 and the
\* log still holds its start between the records of session 6
C29_Witness ==
  /\ response.code = 400
  /\ response.session_id = 5
  /\ logFile.exists
  /\ \E i \in DOMAIN logFile.data :
       /\ logFile.data[i].kind = "obj"
       /\ logFile.data[i].session_id = 5
       /\ logFile.data[i].status = "active"
  /\ \E i \in DOMAIN logFile.data :
       logFile.data[i].kind = "obj" /\ logFile.data[i].session_id = 6

\* both rotations have returned
BothReturned == pc = "done" /\ otherRun.pc = "done"

\* the identities either rotation selected for purge
SelectedByEither == purgeIds \cup otherRun.purgeIds

\* the lines of the log the rotations started from, blank ones apart, without
\* the records of the identities P
StartedFromWithout(P) ==
  SelectSeq(NonBlankLines(otherRun.logAtStart.data),
            LAMBDA l : ~(l.kind = "obj" /\ LoopIdOf(l) \in P))

ToRemoveClaimed ==
  IF entryCount - maxEntries < entryCount \div 2 THEN entryCount - maxEntries
  ELSE entryCount \div 2

RemovedClaimed ==
  LET eligible == Cardinality(PairsIn(lines))
      even == ToRemoveClaimed + (ToRemoveClaimed % 2)
  IN IF 2 * eligible >= ToRemoveClaimed THEN even ELSE 2 * eligible

ReconciledFrom(s) == MergeSessions(ParsedEntries(NonBlankLines(s)), CHOOSE now \in Nows : TRUE)

\* the identity that rotation gives to the start event a record was built from
IdentityOfRecord(s, r) ==
  LET starts == SelectSeq(ParsedEntries(NonBlankLines(s)),
                          LAMBDA e : e.status = "active" /\ e.session_id = r.session_id)
  IN LoopIdOf(Last(starts))

HoldsPreRotation(f) == f = File(content)

HoldsPostRotation ==
  /\ pc \in {"unlinkBackup", "transcripts", "done", "crashed"}
  /\ purgeIds # {}
  /\ logWrites > 0
  /\ logFile = File(filteredLines)

C33_ContentKeptAtEveryStop ==
  pc # "start"
    => /\ HoldsPreRotation(logFile) \/ HoldsPreRotation(backupFile) \/ HoldsPostRotation
       /\ (backupSaved.exists /\ ~backupFile.exists)
            => HoldsPreRotation(logFile) \/ HoldsPostRotation

\* C33 witness: the process was killed after a restoring write had truncated
\* the log, and the backup holds the content
C33_Witness ==
  /\ pc = "crashed"
  /\ stoppedAt = "restoreWrite"
  /\ logFile = File(<<>>)
  /\ entryCount > MAX_SESSION_ENTRIES
  /\ HoldsPreRotation(backupFile)

\* ------------------------------------------------------------------------
\* C34: from a log over the ceiling without unparsable lines in which every
\* identity has exactly one start and one completion, the script invoked again
\* and again with no other writer reaches a log of at most 100 lines, and
\* every invocation that purges leaves fewer lines than it read.
\* ------------------------------------------------------------------------
PurgedAndShorter ==
  (Returned /\ result.sessionsPurged > 0) => result.success /\ LinesOnDisk < entryCount

\* the log the first invocation finds is over the ceiling and holds nothing
\* but one start and one completion for every identity
OnlyPairsOverCeiling ==
  /\ pc = "start"
  /\ logFile.exists
  /\ Len(logFile.data) > MAX_SESSION_ENTRIES
  /\ \A i \in DOMAIN logFile.data : logFile.data[i].kind = "obj"
  /\ \A id \in IdentitiesIn(Range(logFile.data)) : IsPair(logFile.data, id)

C34_RepeatedRotationReachesCeiling ==
  OnlyPairsOverCeiling
    => /\ <>(LinesOnDisk <= MAX_SESSION_ENTRIES)
       /\ []PurgedAndShorter

\* C34 witness: an invocation that purged has reached the ceiling on a log
\* from which an earlier invocation had purged the oldest backlog session
C34_Witness ==
  /\ Returned
  /\ result.success
  /\ result.sessionsPurged > 0
  /\ entryCount > MAX_SESSION_ENTRIES
  /\ 1001 \notin IdentitiesIn(Range(lines))
  /\ LinesOnDisk <= MAX_SESSION_ENTRIES

\* ------------------------------------------------------------------------
\* C35: after a cancel has deleted the marker of an active session, and
\* before a completion event of the session is appended, reconciliation
\* reports the session as orphaned and a second cancel of it is rejected
\* without deleting anything; once a completion with outcome cancelled is
\* appended, reconciliation reports cancelled.
\* ------------------------------------------------------------------------
\* the last answer was a successful cancel of the session
CancelDone(sessionId) == response.code = 200 /\ response.session_id = sessionId

HasCompletion(sessionId) ==
  \E i \in DOMAIN logFile.data :
    logFile.data[i].status = "completed" /\ logFile.data[i].session_id = sessionId

\* the status the list gives to the session
StatusIn(list, sessionId) ==
  LET r == CHOOSE i \in DOMAIN list : list[i].session_id = sessionId
  IN list[r].status

\* a read of the list after the cancel reports orphaned, or cancelled once
\* the completion is in the log
ReportedAfterCancel ==
  \A sessionId \in RequestIds :
    (CancelDone(sessionId) /\ sessionList' # sessionList)
      => StatusIn(sessionList'.list, sessionId)
           = IF HasCompletion(sessionId) THEN "cancelled" ELSE "orphaned"

\* a second cancel before the completion is rejected and deletes nothing
SecondCancelRejected ==
  \A sessionId \in RequestIds :
    (/\ CancelDone(sessionId)
     /\ ~HasCompletion(sessionId)
     /\ response' # response \/ markers' # markers
     /\ response'.session_id = sessionId)
      => response'.code # 200 /\ markers' = markers

C35_CancelledSessionIsOrphaned ==
  [][ReportedAfterCancel /\ SecondCancelRejected]_vars

\* ------------------------------------------------------------------------
\* C36: when several start events, or several completion events, share one
\* effective identity, grouping keeps the last one in log order: the
\* reconciled record has the start fields of the last start and the outcome
\* of the last completion, and rotation orders the identity by the
\* started_at of the last start.
\* ------------------------------------------------------------------------
\* the identities with more than one start or more than one completion
Repeated == {id \in IdentitiesIn(Range(logged)) : Len(StartsOf(id)) > 1 \/ Len(CompletionsOf(id)) > 1}

\* the dashboard's list, read before the rotation touched the log, has one
\* record for such an identity: that of its last start and last completion
LastWinsInList ==
  (sessionList.done /\ pc = "start")
    => \A id \in Repeated :
         StartsOf(id) # <<>>
           => /\ Cardinality(RecordsShowing(Last(StartsOf(id)))) = 1
              /\ \A r \in RecordsShowing(Last(StartsOf(id))) :
                   /\ sessionList.list[r].state_file_path = Last(StartsOf(id)).state_file_path
                   /\ CompletionsOf(id) # <<>>
                        => sessionList.list[r].status = Last(CompletionsOf(id)).outcome

\* completeSessions of the rotation gives the identity the started_at of its
\* last start
LastWinsInRotation ==
  (pc \notin {"start", "backup"} /\ ~PropertyAccessThrows(ParsedEntries(lines)))
    => LET entries == ParsedEntries(lines)
           sorted == CompleteSessions(entries, LoopIds(entries))
       IN \A k \in DOMAIN sorted :
            LET mine == SelectSeq(entries, LAMBDA e : e.status = "active"
                                                     /\ LoopIdOf(e) = sorted[k].loopId)
            IN sorted[k].startedAt = Last(mine).started_at

C36_LastEventOfIdentityWins == LastWinsInList /\ LastWinsInRotation

\* ------------------------------------------------------------------------
\* C37: the log written by a successful rotation is an order-preserving
\* subsequence of the non-blank lines read: every retained line is one of
\* the original lines, unchanged, and the retained lines keep their order.
\* ------------------------------------------------------------------------
RECURSIVE IsSubsequenceFrom(_, _, _, _)
\* a[i..] can be matched, in order, with lines of b[j..]
IsSubsequenceFrom(a, b, i, j) ==
  IF i > Len(a) THEN TRUE
  ELSE IF j > Len(b) THEN FALSE
  ELSE IF a[i] = b[j] THEN IsSubsequenceFrom(a, b, i + 1, j + 1)
  ELSE IsSubsequenceFrom(a, b, i, j + 1)

C37_OutputIsSubsequence ==
  (Returned /\ result.success /\ result.sessionsPurged > 0)
    => /\ logFile.exists
       /\ IsSubsequenceFrom(logFile.data, lines, 1, 1)

\* C37 witness: a rotation purged a pair from the middle of the log and kept
\* the different lines before and after it
C37_Witness ==
  /\ Returned
  /\ result.success
  /\ result.sessionsPurged > 0
  /\ Len(logFile.data) >= 2
  /\ logFile.data[1] = lines[1]
  /\ Last(logFile.data) = Last(lines)
  /\ logFile.data[1] # Last(logFile.data)

\* ------------------------------------------------------------------------
\* C38: in a rotation with no other writer the number of filtered lines is
\* entryCount minus purgeCount, whatever the log holds (unparsable lines,
\* legacy records without loop_id, identities with duplicated entries), and
\* the failure 'Count mismatch' is never returned.
\* ------------------------------------------------------------------------
\* the filter loop has run
Filtered == pc \notin {"start", "backup", "compute", "catch"} /\ purgeIds # {} /\ ~inCatch

C38_CountNeverMismatches ==
  /\ Filtered => Len(filteredLines) = entryCount - purgeCount
  /\ error # "Count mismatch"
  /\ Returned => result.error # "Count mismatch"

\* C38 witness: the filter has run on a log with an unparsable line, from
\* which the pair of a legacy identity is purged beside the records of a loop
C38_Witness ==
  /\ Filtered
  /\ Unparsable(lines) # {}
  /\ \E i \in DOMAIN lines :
       lines[i].kind = "obj" /\ lines[i].loop_id = NoId /\ LoopIdOf(lines[i]) \in purgeIds
  /\ \E i \in DOMAIN lines : lines[i].kind = "obj" /\ lines[i].loop_id # NoId
  /\ Len(filteredLines) = entryCount - 2

====
